---------------------------- MODULE Spec2Model ----------------------------
(***************************************************************************)
(* A model of the matchmaking / signaling broker:                          *)
(*   src/src/index.ts                       (socket event handlers, tick)  *)
(*   src/src/controllers/matchController.ts (join_queue)                   *)
(*   src/src/services/QueueService.ts       (queue store, match engine)    *)
(*   src/src/services/SessionService.ts     (socket registry, rooms,       *)
(*                                           sessions)                     *)
(*   src/src/services/BanService.ts         (ban list)                     *)
(*                                                                         *)
(* The server is a single Node.js process: a handler runs to completion    *)
(* unless it awaits real I/O.  Each action below is one such atomic run.   *)
(***************************************************************************)
EXTENDS Integers, Sequences, FiniteSets, TLC

(***************************************************************************)
(* The finite world the model is explored in.                              *)
(***************************************************************************)

\* User ids.  "guest_3" carries the guest_ prefix (matchController.ts:18).
Uids == {"u1", "u2", "guest_3"}

\* Socket ids.  A socket id names one connection and is never reused.
Sockets == {"s1", "s2", "s3", "s4"}

\* socket.user.uid of every connection (set by the auth middleware); u1 owns
\* two connections (two tabs).
SocketUser(s) ==
    CASE s = "s1" -> "u1"
      [] s = "s2" -> "u2"
      [] s = "s3" -> "guest_3"
      [] OTHER    -> "u1"

Genders == {"male", "female"}
Modes == {"random", "video"}
Services == {"game", "video"}
Locations == {"IN", "US"}
None == "none"

\* Connections that come with other credentials than a plain user id; the
\* handshake.auth of each is HandshakeAuth below.
GateSockets == { "g1", "g2", "g3", "g4" }

\* process.env.MATCHMAKING_SERVER_KEY || 'server-secret-key'
AdminServerKey == "server-secret-key"

\* The uids a connection can end up with.
AllUids == Uids \cup { "server-admin", "bad.jwt" }

\* The users collection read by matchController.joinQueue for non-guests.
DbGender(uid) == IF uid = "u1" THEN "male" ELSE "female"
DbLocation(uid) == IF uid = "u1" THEN "IN" ELSE "US"
DbTier(uid) == IF uid = "u1" THEN "DIAMOND" ELSE "GOLD"

\* Math.floor(Math.random() * 1000): the random tail of a room id, cut to two
\* values so that both a fresh tail and a repeated one can be drawn.
RoomTails == {0, 1}

\* Date.now() advances in steps of this many milliseconds.
TimeStep == 5001
\* The number of time steps explored.
MaxSteps == 2
\* The number of pending rooms explored.
MaxRooms == 2
\* The number of join_queue handlers suspended at their database read at once.
MaxJoining == 1
\* Pending rooms at a time while the queue is explored.
MaxQueueRooms == 1

\* Widening and timeout thresholds, in milliseconds.
WidenLocationMs == 5000
WidenGenderMs == 10000
QueueTimeoutMs == 30000
RoomTimeoutMs == 30000

(***************************************************************************)
(* Maps (JavaScript Map): functions with a growing and shrinking domain.   *)
(***************************************************************************)
EmptyMap == << >>
MapHas(m, k) == k \in DOMAIN m
MapSet(m, k, v) == [x \in (DOMAIN m) \cup {k} |-> IF x = k THEN v ELSE m[x]]
MapDelete(m, k) == [x \in (DOMAIN m) \ {k} |-> m[x]]

Range(seq) == {seq[i] : i \in 1..Len(seq)}

(***************************************************************************)
(* The state of the process.                                               *)
(***************************************************************************)
VARIABLES
    now,            \* Date.now()
    connected,      \* io.sockets.sockets: the ids of the open connections
    closed,         \* the ids of the connections that have ended
    joining,        \* sockets with a join_queue suspended at its database read
    queues,         \* QueueService.queues: [male, female], arrays of QueueUser
    activeRooms,    \* SessionService.activeRooms, in insertion order
    sessionCache,   \* SessionService.sessionCache: uid -> SessionData
    socketToUid,    \* SessionService.socketToUid
    uidToSocket,    \* SessionService.uidToSocket
    bannedUsers,    \* BanService.bannedUsers: uid -> BanEntry
    emits,          \* the events the last handler emitted, in order
    matched,        \* the pairs the last handler handed to executeMatch
    regOrder,       \* history: uid -> its registered sockets, oldest
                    \* registration first
    unregistered,   \* history: what the last handler unregistered, with the
                    \* socket its uid was bound to before
    replaced,       \* history: the sockets of the queue entries the last
                    \* handler removed by uid
    cycling,        \* the replicas that are inside their interval callback
    stableCalls     \* the connection_stable handlers of the revision that keeps
                    \* its rooms in Redis: what each read and where it stands

vars == << now, connected, closed, joining, queues, activeRooms, sessionCache,
           socketToUid, uidToSocket, bannedUsers, emits, matched, regOrder,
           unregistered, replaced, cycling, stableCalls >>

\* The tables a handler works on, as one record, with nothing emitted yet.
Server ==
    [ queues       |-> queues,
      activeRooms  |-> activeRooms,
      sessionCache |-> sessionCache,
      socketToUid  |-> socketToUid,
      uidToSocket  |-> uidToSocket,
      bannedUsers  |-> bannedUsers,
      emits        |-> << >>,
      matched      |-> << >>,
      regOrder     |-> regOrder,
      unregistered |-> << >>,
      replaced     |-> {} ]

\* The handler's result becomes the next state.
Commit(st) ==
    /\ queues' = st.queues
    /\ activeRooms' = st.activeRooms
    /\ sessionCache' = st.sessionCache
    /\ socketToUid' = st.socketToUid
    /\ uidToSocket' = st.uidToSocket
    /\ bannedUsers' = st.bannedUsers
    /\ emits' = st.emits
    /\ matched' = st.matched
    /\ regOrder' = st.regOrder
    /\ unregistered' = st.unregistered
    /\ replaced' = st.replaced

\* io.to(sid).emit(ev, payload) / socket.emit(ev, payload)
Emit(st, sid, ev, payload) ==
    [st EXCEPT !.emits = Append(@, [to |-> sid, ev |-> ev, payload |-> payload])]

Init ==
    /\ now = 0
    /\ connected = {}
    /\ closed = {}
    /\ joining = {}
    /\ queues = [male |-> << >>, female |-> << >>]
    /\ activeRooms = << >>
    /\ sessionCache = EmptyMap
    /\ socketToUid = EmptyMap
    /\ uidToSocket = EmptyMap
    /\ bannedUsers = EmptyMap
    /\ emits = << >>
    /\ matched = << >>
    /\ regOrder = [u \in AllUids |-> << >>]
    /\ unregistered = << >>
    /\ replaced = {}
    /\ cycling = {}
    /\ stableCalls = {}

(***************************************************************************)
(* SessionService: the socket registry.                                    *)
(***************************************************************************)

\* registerSocket as it would be if a uid that is bound kept its binding.
registerSocketKeep(st, socketId, uid) ==
    [st EXCEPT !.socketToUid = MapSet(@, socketId, uid),
               !.uidToSocket = IF MapHas(@, uid) THEN @ ELSE MapSet(@, uid, socketId),
               !.regOrder[uid] = Append(SelectSeq(@, LAMBDA x : x # socketId), socketId)]

\* SessionService.registerSocket
registerSocket(st, socketId, uid) ==
    [st EXCEPT !.socketToUid = MapSet(@, socketId, uid),
               !.uidToSocket = MapSet(@, uid, socketId),
               !.regOrder[uid] = Append(SelectSeq(@, LAMBDA x : x # socketId), socketId)]

\* SessionService.getSocketIdsForUser
getSocketIdsForUser(st, uid) ==
    IF MapHas(st.uidToSocket, uid) THEN << st.uidToSocket[uid] >> ELSE << >>

\* handleDisconnect as it would be if it dropped the uid's binding whatever
\* socket it points at.
handleDisconnectEvict(st, socketId) ==
    IF MapHas(st.socketToUid, socketId)
    THEN LET uid == st.socketToUid[socketId] IN
         [st EXCEPT !.socketToUid = MapDelete(@, socketId),
                    !.uidToSocket = MapDelete(@, uid),
                    !.regOrder[uid] = SelectSeq(@, LAMBDA x : x # socketId),
                    !.unregistered =
                        Append(@, [ socketId |-> socketId, uid |-> uid,
                                    boundTo |-> IF MapHas(st.uidToSocket, uid)
                                                THEN st.uidToSocket[uid]
                                                ELSE None ])]
    ELSE st

\* SessionService.handleDisconnect
handleDisconnect(st, socketId) ==
    IF MapHas(st.socketToUid, socketId)
    THEN LET uid == st.socketToUid[socketId] IN
         [st EXCEPT !.socketToUid = MapDelete(@, socketId),
                    !.uidToSocket =
                        IF MapHas(@, uid) /\ @[uid] = socketId
                        THEN MapDelete(@, uid) ELSE @,
                    !.regOrder[uid] = SelectSeq(@, LAMBDA x : x # socketId),
                    !.unregistered =
                        Append(@, [ socketId |-> socketId, uid |-> uid,
                                    boundTo |-> IF MapHas(st.uidToSocket, uid)
                                                THEN st.uidToSocket[uid]
                                                ELSE None ])]
    ELSE st

(***************************************************************************)
(* SessionService: pending rooms (activeRooms) and sessions (sessionCache). *)
(***************************************************************************)

\* activeRooms.get(roomId): the index of the room in insertion order, or 0.
RoomIndex(rooms, roomId) ==
    IF \E i \in 1..Len(rooms) : rooms[i].roomId = roomId
    THEN CHOOSE i \in 1..Len(rooms) : rooms[i].roomId = roomId
    ELSE 0

\* activeRooms.set(roomId, room): a known key keeps its place.
RoomsSet(rooms, room) ==
    LET i == RoomIndex(rooms, room.roomId) IN
    IF i = 0 THEN Append(rooms, room) ELSE [rooms EXCEPT ![i] = room]

\* activeRooms.delete(roomId)
RoomsDelete(rooms, roomId) == SelectSeq(rooms, LAMBDA r : r.roomId # roomId)

\* for (const [id, r] of activeRooms) with a test and a break: the index of
\* the first room, in insertion order, among those the test accepts, or 0.
FirstRoom(accepted) ==
    IF accepted = {} THEN 0
    ELSE CHOOSE i \in accepted : \A j \in accepted : i <= j

MatchFound(roomId, role, opponentId, opponentUid, isInitiator, isReconnection) ==
    [ roomId |-> roomId, role |-> role, opponentId |-> opponentId,
      opponentUid |-> opponentUid, isInitiator |-> isInitiator,
      isReconnection |-> isReconnection ]

\* The services a room of this mode waits for.
ExpectedServices(mode) ==
    IF mode = "video" THEN {"game", "video"} ELSE {"game"}

\* createRoom as it would be if a uid without a binding kept the socket it
\* was queued with instead of aborting the match.
createRoomUnvalidated(st, userA, userB, mode, t, tail) ==
    LET roomId == << t, tail >>
        a == [uid |-> userA.uid,
              socketId |-> IF MapHas(st.uidToSocket, userA.uid)
                           THEN st.uidToSocket[userA.uid] ELSE userA.socketId]
        b == [uid |-> userB.uid,
              socketId |-> IF MapHas(st.uidToSocket, userB.uid)
                           THEN st.uidToSocket[userB.uid] ELSE userB.socketId]
        roomData == [ roomId |-> roomId, playerA |-> a, playerB |-> b,
                      gameReady |-> FALSE, videoReady |-> FALSE,
                      expectedServices |-> ExpectedServices(mode),
                      createdAt |-> t ]
        st1 == [st EXCEPT !.activeRooms = RoomsSet(@, roomData)]
        st2 == Emit(st1, a.socketId, "match_found",
                    MatchFound(roomId, "A", b.socketId, b.uid, TRUE, FALSE))
    IN Emit(st2, b.socketId, "match_found",
            MatchFound(roomId, "B", a.socketId, a.uid, FALSE, FALSE))

\* createRoom as it would be if it used the socket ids it is called with.
createRoomStale(st, userA, userB, mode, t, tail) ==
    IF ~MapHas(st.uidToSocket, userA.uid) \/ ~MapHas(st.uidToSocket, userB.uid)
    THEN st
    ELSE LET roomId == << t, tail >>
             roomData == [ roomId |-> roomId, playerA |-> userA, playerB |-> userB,
                           gameReady |-> FALSE, videoReady |-> FALSE,
                           expectedServices |-> ExpectedServices(mode),
                           createdAt |-> t ]
             st1 == [st EXCEPT !.activeRooms = RoomsSet(@, roomData)]
             st2 == Emit(st1, userA.socketId, "match_found",
                         MatchFound(roomId, "A", userB.socketId, userB.uid, TRUE, FALSE))
         IN Emit(st2, userB.socketId, "match_found",
                 MatchFound(roomId, "B", userA.socketId, userA.uid, FALSE, FALSE))

\* SessionService.createRoom; t is Date.now(), tail the random tail of the id.
createRoom(st, userA, userB, mode, t, tail) ==
    IF ~MapHas(st.uidToSocket, userA.uid) \/ ~MapHas(st.uidToSocket, userB.uid)
    THEN st
    ELSE LET roomId == << t, tail >>
             a == [uid |-> userA.uid, socketId |-> st.uidToSocket[userA.uid]]
             b == [uid |-> userB.uid, socketId |-> st.uidToSocket[userB.uid]]
             roomData == [ roomId |-> roomId, playerA |-> a, playerB |-> b,
                           gameReady |-> FALSE, videoReady |-> FALSE,
                           expectedServices |-> ExpectedServices(mode),
                           createdAt |-> t ]
             st1 == [st EXCEPT !.activeRooms = RoomsSet(@, roomData)]
             st2 == Emit(st1, a.socketId, "match_found",
                         MatchFound(roomId, "A", b.socketId, b.uid, TRUE, FALSE))
         IN Emit(st2, b.socketId, "match_found",
                 MatchFound(roomId, "B", a.socketId, a.uid, FALSE, FALSE))

\* finalizeConnection as it would be if the clients were notified between
\* the two writes: the entry of playerB is still missing when the two
\* session_established are emitted.
finalizeConnectionNotifyEarly(st, roomId) ==
    LET i == RoomIndex(st.activeRooms, roomId) IN
    IF i = 0 THEN st
    ELSE LET room == st.activeRooms[i]
             cacheA == MapSet(st.sessionCache, room.playerA.uid,
                              [ roomId |-> roomId,
                                opponentId |-> room.playerB.uid, role |-> "A" ])
             st1 == [st EXCEPT !.sessionCache = cacheA]
             st2 == Emit(st1, room.playerA.socketId, "session_established",
                         [roomId |-> roomId])
             st3 == Emit(st2, room.playerB.socketId, "session_established",
                         [roomId |-> roomId])
         IN [st3 EXCEPT !.activeRooms = RoomsDelete(@, roomId)]

\* SessionService.finalizeConnection
finalizeConnection(st, roomId) ==
    LET i == RoomIndex(st.activeRooms, roomId) IN
    IF i = 0 THEN st
    ELSE LET room == st.activeRooms[i]
             cacheA == MapSet(st.sessionCache, room.playerA.uid,
                              [ roomId |-> roomId,
                                opponentId |-> room.playerB.uid, role |-> "A" ])
             cacheB == MapSet(cacheA, room.playerB.uid,
                              [ roomId |-> roomId,
                                opponentId |-> room.playerA.uid, role |-> "B" ])
             st1 == [st EXCEPT !.sessionCache = cacheB]
             st2 == Emit(st1, room.playerA.socketId, "session_established",
                         [roomId |-> roomId])
             st3 == Emit(st2, room.playerB.socketId, "session_established",
                         [roomId |-> roomId])
         IN [st3 EXCEPT !.activeRooms = RoomsDelete(@, roomId)]

\* handleConnectionStable as it would be if the first report of any service
\* finalized the room.
handleConnectionStableEager(st, roomId, service) ==
    LET i == RoomIndex(st.activeRooms, roomId) IN
    IF i = 0 THEN st
    ELSE LET old == st.activeRooms[i]
             room == [old EXCEPT
                        !.gameReady = IF service = "game" THEN TRUE ELSE @,
                        !.videoReady = IF service = "video" THEN TRUE ELSE @]
         IN finalizeConnection([st EXCEPT !.activeRooms[i] = room], roomId)

\* SessionService.handleConnectionStable
handleConnectionStable(st, roomId, service) ==
    LET i == RoomIndex(st.activeRooms, roomId) IN
    IF i = 0 THEN st
    ELSE LET old == st.activeRooms[i]
             room == [old EXCEPT
                        !.gameReady = IF service = "game" THEN TRUE ELSE @,
                        !.videoReady = IF service = "video" THEN TRUE ELSE @]
             st1 == [st EXCEPT !.activeRooms[i] = room]
             isGameSatisfied ==
                 IF "game" \in room.expectedServices THEN room.gameReady ELSE TRUE
             isVideoSatisfied ==
                 IF "video" \in room.expectedServices THEN room.videoReady ELSE TRUE
         IN IF isGameSatisfied /\ isVideoSatisfied
            THEN finalizeConnection(st1, roomId)
            ELSE st1

\* SessionService.clearSession
clearSession(st, uid) ==
    IF MapHas(st.sessionCache, uid)
    THEN LET session == st.sessionCache[uid] IN
         [st EXCEPT !.sessionCache =
                        MapDelete(MapDelete(@, uid), session.opponentId)]
    ELSE st

\* handleReconnection as it would be if the room kept the old socket id.
handleReconnectionKeepSocket(st, socketId, uid) ==
    IF MapHas(st.sessionCache, uid)
    THEN LET session == st.sessionCache[uid]
             st1 == Emit(st, socketId, "match_found",
                         MatchFound(session.roomId, session.role,
                                    session.opponentId, None,
                                    session.role = "A", TRUE))
             opponentSockets == getSocketIdsForUser(st, session.opponentId)
         IN \* socket.to(sid) leaves the sending socket out
            IF opponentSockets # << >> /\ opponentSockets[1] # socketId
            THEN Emit(st1, opponentSockets[1], "opponent_reconnected",
                      [message |-> "Opponent is back online"])
            ELSE st1
    ELSE LET i == FirstRoom({ k \in 1..Len(st.activeRooms) :
                                \/ st.activeRooms[k].playerA.uid = uid
                                \/ st.activeRooms[k].playerB.uid = uid }) IN
         IF i = 0 THEN st
         ELSE LET room == st.activeRooms[i]
                  isPlayerA == room.playerA.uid = uid
                  opponent == IF isPlayerA THEN room.playerB ELSE room.playerA
                  st1 == st
                  st2 == registerSocket(st1, socketId, uid)
              IN Emit(st2, socketId, "match_found",
                      MatchFound(room.roomId, IF isPlayerA THEN "A" ELSE "B",
                                 opponent.socketId, opponent.uid, isPlayerA, TRUE))

\* SessionService.handleReconnection
handleReconnection(st, socketId, uid) ==
    IF MapHas(st.sessionCache, uid)
    THEN LET session == st.sessionCache[uid]
             st1 == Emit(st, socketId, "match_found",
                         MatchFound(session.roomId, session.role,
                                    session.opponentId, None,
                                    session.role = "A", TRUE))
             opponentSockets == getSocketIdsForUser(st, session.opponentId)
         IN \* socket.to(sid) leaves the sending socket out
            IF opponentSockets # << >> /\ opponentSockets[1] # socketId
            THEN Emit(st1, opponentSockets[1], "opponent_reconnected",
                      [message |-> "Opponent is back online"])
            ELSE st1
    ELSE LET i == FirstRoom({ k \in 1..Len(st.activeRooms) :
                                \/ st.activeRooms[k].playerA.uid = uid
                                \/ st.activeRooms[k].playerB.uid = uid }) IN
         IF i = 0 THEN st
         ELSE LET room == st.activeRooms[i]
                  isPlayerA == room.playerA.uid = uid
                  opponent == IF isPlayerA THEN room.playerB ELSE room.playerA
                  st1 == [st EXCEPT !.activeRooms[i] =
                             IF isPlayerA
                             THEN [room EXCEPT !.playerA.socketId = socketId]
                             ELSE [room EXCEPT !.playerB.socketId = socketId]]
                  st2 == registerSocket(st1, socketId, uid)
              IN Emit(st2, socketId, "match_found",
                      MatchFound(room.roomId, IF isPlayerA THEN "A" ELSE "B",
                                 opponent.socketId, opponent.uid, isPlayerA, TRUE))

\* handleSkipMatch as it would be if it cleared the entry of the skipper only.
handleSkipMatchOneSided(st, socketId) ==
    LET hasUid == MapHas(st.socketToUid, socketId)
        uid == IF hasUid THEN st.socketToUid[socketId] ELSE None
        inSession == hasUid /\ MapHas(st.sessionCache, uid)
        \* 1. the session cache
        st1 == IF inSession
               THEN LET opponentUid == st.sessionCache[uid].opponentId
                        sids == getSocketIdsForUser(st, uid)
                                  \o getSocketIdsForUser(st, opponentUid)
                        e1 == IF Len(sids) >= 1
                              THEN Emit(st, sids[1], "match_skipped", << >>)
                              ELSE st
                        e2 == IF Len(sids) >= 2
                              THEN Emit(e1, sids[2], "match_skipped", << >>)
                              ELSE e1
                    IN [e2 EXCEPT !.sessionCache =
                                      MapDelete(@, uid)]
               ELSE st
        \* 2. the pending rooms
        i == FirstRoom({ k \in 1..Len(st1.activeRooms) :
                LET r == st1.activeRooms[k] IN
                \/ r.playerA.socketId = socketId
                \/ r.playerB.socketId = socketId
                \/ (hasUid /\ (r.playerA.uid = uid \/ r.playerB.uid = uid)) })
        st2 == IF i = 0 THEN st1
               ELSE LET room == st1.activeRooms[i]
                        e1 == Emit(st1, room.playerA.socketId, "match_skipped", << >>)
                        e2 == Emit(e1, room.playerB.socketId, "match_skipped", << >>)
                    IN [e2 EXCEPT !.activeRooms = RoomsDelete(@, room.roomId)]
    IN IF ~inSession /\ i = 0
       THEN Emit(st2, socketId, "match_skipped", << >>)
       ELSE st2

\* SessionService.handleSkipMatch
handleSkipMatch(st, socketId) ==
    LET hasUid == MapHas(st.socketToUid, socketId)
        uid == IF hasUid THEN st.socketToUid[socketId] ELSE None
        inSession == hasUid /\ MapHas(st.sessionCache, uid)
        \* 1. the session cache
        st1 == IF inSession
               THEN LET opponentUid == st.sessionCache[uid].opponentId
                        sids == getSocketIdsForUser(st, uid)
                                  \o getSocketIdsForUser(st, opponentUid)
                        e1 == IF Len(sids) >= 1
                              THEN Emit(st, sids[1], "match_skipped", << >>)
                              ELSE st
                        e2 == IF Len(sids) >= 2
                              THEN Emit(e1, sids[2], "match_skipped", << >>)
                              ELSE e1
                    IN [e2 EXCEPT !.sessionCache =
                                      MapDelete(MapDelete(@, uid), opponentUid)]
               ELSE st
        \* 2. the pending rooms
        i == FirstRoom({ k \in 1..Len(st1.activeRooms) :
                LET r == st1.activeRooms[k] IN
                \/ r.playerA.socketId = socketId
                \/ r.playerB.socketId = socketId
                \/ (hasUid /\ (r.playerA.uid = uid \/ r.playerB.uid = uid)) })
        st2 == IF i = 0 THEN st1
               ELSE LET room == st1.activeRooms[i]
                        e1 == Emit(st1, room.playerA.socketId, "match_skipped", << >>)
                        e2 == Emit(e1, room.playerB.socketId, "match_skipped", << >>)
                    IN [e2 EXCEPT !.activeRooms = RoomsDelete(@, room.roomId)]
    IN IF ~inSession /\ i = 0
       THEN Emit(st2, socketId, "match_skipped", << >>)
       ELSE st2

\* cleanupStaleRooms as it would be if it compared the clock, not the age of
\* the room, with the timeout.
RECURSIVE cleanupFromUptime(_, _, _, _)
cleanupFromUptime(st, rooms, t, conn) ==
    IF rooms = << >> THEN st
    ELSE LET room == Head(rooms) IN
         IF t > RoomTimeoutMs
         THEN LET e1 == IF room.playerA.socketId \in conn
                        THEN Emit(st, room.playerA.socketId, "match_error", << >>)
                        ELSE st
                  e2 == IF room.playerB.socketId \in conn
                        THEN Emit(e1, room.playerB.socketId, "match_error", << >>)
                        ELSE e1
              IN cleanupFromUptime([e2 EXCEPT !.activeRooms = RoomsDelete(@, room.roomId)],
                                   Tail(rooms), t, conn)
         ELSE cleanupFromUptime(st, Tail(rooms), t, conn)

\* SessionService.cleanupStaleRooms; t is Date.now(), conn io.sockets.sockets.
RECURSIVE cleanupFrom(_, _, _, _)
cleanupFrom(st, rooms, t, conn) ==
    IF rooms = << >> THEN st
    ELSE LET room == Head(rooms) IN
         IF t - room.createdAt > RoomTimeoutMs
         THEN LET e1 == IF room.playerA.socketId \in conn
                        THEN Emit(st, room.playerA.socketId, "match_error", << >>)
                        ELSE st
                  e2 == IF room.playerB.socketId \in conn
                        THEN Emit(e1, room.playerB.socketId, "match_error", << >>)
                        ELSE e1
              IN cleanupFrom([e2 EXCEPT !.activeRooms = RoomsDelete(@, room.roomId)],
                             Tail(rooms), t, conn)
         ELSE cleanupFrom(st, Tail(rooms), t, conn)

cleanupStaleRooms(st, t, conn) == cleanupFrom(st, st.activeRooms, t, conn)

\* getOpponentUid as it would be if it looked at the sessions only.
getOpponentUidOfSession(st, uid) ==
    IF MapHas(st.sessionCache, uid) THEN st.sessionCache[uid].opponentId
    ELSE None

\* SessionService.getOpponentUid
getOpponentUid(st, uid) ==
    IF MapHas(st.sessionCache, uid) THEN st.sessionCache[uid].opponentId
    ELSE LET i == FirstRoom({ k \in 1..Len(st.activeRooms) :
                                \/ st.activeRooms[k].playerA.uid = uid
                                \/ st.activeRooms[k].playerB.uid = uid }) IN
         IF i = 0 THEN None
         ELSE IF st.activeRooms[i].playerA.uid = uid
              THEN st.activeRooms[i].playerB.uid
              ELSE st.activeRooms[i].playerA.uid

(***************************************************************************)
(* index.ts: the relay of the WebRTC signalling frames.  The data of a      *)
(* frame is { to, targetUid } and a body that is passed on untouched; None  *)
(* stands for a field the client left out.                                  *)
(***************************************************************************)
FrameTypes ==
    { "offer", "answer", "ice-candidate",
      "video-offer", "video-answer", "video-ice-candidate" }

\* What the receiver is told about the sender.
Frame(type, socketId, senderUid) ==
    IF type \in {"offer", "video-offer"}
    THEN [from |-> socketId, fromUid |-> senderUid]
    ELSE [from |-> socketId]

\* sockets.forEach(sid => io.to(sid).emit(type, ...))
RECURSIVE emitToAll(_, _, _, _)
emitToAll(st, sids, type, frame) ==
    IF sids = << >> THEN st
    ELSE emitToAll(Emit(st, Head(sids), type, frame), Tail(sids), type, frame)

\* io.to(to).emit(type, ...): no socket is in the room of an id left out.
emitTo(st, to, type, frame) ==
    IF to = None THEN st ELSE Emit(st, to, type, frame)

\* targetUid, or else the opponent of the sender.
ResolvedTarget(st, senderUid, targetUid) ==
    IF targetUid = None THEN getOpponentUid(st, senderUid) ELSE targetUid

\* socket.on('offer'), ('answer'), ('ice-candidate'), ('video-offer')
relayDirect(st, type, socketId, senderUid, to, targetUid) ==
    LET frame == Frame(type, socketId, senderUid)
        resolved == ResolvedTarget(st, senderUid, targetUid)
    IN IF targetUid = senderUid THEN st
       ELSE IF to # None THEN emitTo(st, to, type, frame)
       ELSE IF resolved # None
            THEN emitToAll(st, getSocketIdsForUser(st, resolved), type, frame)
            ELSE IF type = "video-offer" THEN emitTo(st, to, type, frame)
            ELSE st

\* socket.on('video-answer')
relayVideoAnswer(st, socketId, senderUid, to, targetUid) ==
    LET frame == Frame("video-answer", socketId, senderUid)
        resolved == ResolvedTarget(st, senderUid, targetUid)
    IN IF to = None /\ targetUid # None
       THEN emitToAll(st, getSocketIdsForUser(st, targetUid), "video-answer", frame)
       ELSE IF targetUid = senderUid THEN st
       ELSE IF resolved # None
            THEN emitToAll(st, getSocketIdsForUser(st, resolved),
                           "video-answer", frame)
            ELSE emitTo(st, to, "video-answer", frame)

\* socket.on('video-ice-candidate')
relayVideoIce(st, socketId, senderUid, to, targetUid) ==
    LET frame == Frame("video-ice-candidate", socketId, senderUid)
        resolved == ResolvedTarget(st, senderUid, targetUid)
    IN IF targetUid = senderUid THEN st
       ELSE IF resolved # None
            THEN emitToAll(st, getSocketIdsForUser(st, resolved),
                           "video-ice-candidate", frame)
            ELSE emitTo(st, to, "video-ice-candidate", frame)

\* The handler of the frame type.
relay(st, type, socketId, senderUid, to, targetUid) ==
    IF type = "video-answer"
    THEN relayVideoAnswer(st, socketId, senderUid, to, targetUid)
    ELSE IF type = "video-ice-candidate"
    THEN relayVideoIce(st, socketId, senderUid, to, targetUid)
    ELSE relayDirect(st, type, socketId, senderUid, to, targetUid)

(***************************************************************************)
(* QueueService: the two partitions and the match engine.                  *)
(***************************************************************************)

\* QueueService.removeFromQueue
removeFromQueue(st, socketId) ==
    [st EXCEPT !.queues =
        [ male   |-> SelectSeq(@.male, LAMBDA u : u.socketId # socketId),
          female |-> SelectSeq(@.female, LAMBDA u : u.socketId # socketId) ]]

\* removeUserByUid as it would be if it filtered the male partition only.
removeUserByUidMale(st, uid) ==
    [st EXCEPT !.queues.male = SelectSeq(@, LAMBDA u : u.uid # uid)]

\* QueueService.removeUserByUid
removeUserByUid(st, uid) ==
    [st EXCEPT !.queues =
        [ male   |-> SelectSeq(@.male, LAMBDA u : u.uid # uid),
          female |-> SelectSeq(@.female, LAMBDA u : u.uid # uid) ],
               !.replaced =
        LET all == st.queues.male \o st.queues.female IN
        @ \cup { all[i].socketId : i \in { j \in 1..Len(all) : all[j].uid = uid } }]

RECURSIVE removeSockets(_, _)
removeSockets(st, sids) ==
    IF sids = {} THEN st
    ELSE LET sid == CHOOSE x \in sids : TRUE IN
         removeSockets(removeFromQueue(st, sid), sids \ {sid})

Opposite(gender) == IF gender = "male" THEN "female" ELSE "male"

\* findMatch: the gender the seeker looks for.
TargetGender(user) ==
    IF user.preferences.gender # None THEN user.preferences.gender
    ELSE IF user.widenStage < 2 THEN Opposite(user.gender)
    ELSE "any"

\* findMatch: the gender the candidate looks for.
CandidateWants(candidate) ==
    IF candidate.preferences.gender # None THEN candidate.preferences.gender
    ELSE IF candidate.widenStage >= 2 THEN "any"
    ELSE Opposite(candidate.gender)

\* The self checks as they would be if findMatch had none.
SelfCandidateNone(user, candidate) == FALSE

\* findMatch: the candidate is the seeker itself.
SelfCandidate(user, candidate) ==
    \/ candidate.socketId = user.socketId
    \/ candidate.uid = user.uid

\* The gender check as it would be if only the seeker's wish counted.
GenderCheckOneWay(user, candidate) ==
    TargetGender(user) = "any" \/ candidate.gender = TargetGender(user)

\* findMatch: the reciprocal gender check.
GenderCheck(user, candidate) ==
    /\ TargetGender(user) = "any" \/ candidate.gender = TargetGender(user)
    /\ CandidateWants(candidate) = "any" \/ CandidateWants(candidate) = user.gender

\* findMatch: the location check.
LocationCheck(user, candidate) ==
    /\ (user.preferences.location # None /\ user.widenStage < 1)
          => candidate.location = user.preferences.location
    /\ (candidate.preferences.location # None /\ candidate.widenStage < 1)
          => candidate.location = candidate.preferences.location

\* findMatch: the findIndex callback's answer for one candidate.
Accepts(user, candidate, conn) ==
    /\ ~SelfCandidate(user, candidate)
    /\ candidate.socketId \in conn
    /\ GenderCheck(user, candidate)
    /\ LocationCheck(user, candidate)

\* findMatch: the array the candidate is searched in.
PotentialMatches(st, user) ==
    IF TargetGender(user) = "male" THEN st.queues.male
    ELSE IF TargetGender(user) = "female" THEN st.queues.female
    ELSE st.queues.male \o st.queues.female

\* QueueService.executeMatch
executeMatch(st, user1, user2, t, tail) ==
    LET st1 == removeFromQueue(removeFromQueue(st, user1.socketId), user2.socketId)
        st2 == createRoom(st1, [uid |-> user1.uid, socketId |-> user1.socketId],
                          [uid |-> user2.uid, socketId |-> user2.socketId],
                          user1.mode, t, tail)
    IN [st2 EXCEPT !.matched = Append(@, [user |-> user1, candidate |-> user2])]

\* QueueService.findMatch
findMatch(st, user, conn, t, tail) ==
    LET potentialMatches == PotentialMatches(st, user)
        n == Len(potentialMatches)
        found == \E i \in 1..n : Accepts(user, potentialMatches[i], conn)
        matchIndex ==
            IF found
            THEN CHOOSE i \in 1..n :
                    /\ Accepts(user, potentialMatches[i], conn)
                    /\ \A j \in 1..(i - 1) : ~Accepts(user, potentialMatches[j], conn)
            ELSE 0
        scanned == IF found THEN matchIndex - 1 ELSE n
        \* stale candidates met before the search stopped are removed
        stale == { potentialMatches[i].socketId : i \in
                     { j \in 1..scanned :
                         /\ ~SelfCandidate(user, potentialMatches[j])
                         /\ potentialMatches[j].socketId \notin conn } }
        st1 == removeSockets(st, stale)
    IN IF found
       THEN executeMatch(st1, user, potentialMatches[matchIndex], t, tail)
       ELSE st1

\* joinQueue as it would be without removeUserByUid.
joinQueueKeep(st, user, conn, t, tail) ==
    LET st2 == IF user.gender = "male"
               THEN [st EXCEPT !.queues.male = Append(@, user)]
               ELSE [st EXCEPT !.queues.female = Append(@, user)]
    IN findMatch(st2, user, conn, t, tail)

\* QueueService.joinQueue
joinQueue(st, user, conn, t, tail) ==
    LET st1 == removeUserByUid(st, user.uid)
        st2 == IF user.gender = "male"
               THEN [st1 EXCEPT !.queues.male = Append(@, user)]
               ELSE [st1 EXCEPT !.queues.female = Append(@, user)]
    IN findMatch(st2, user, conn, t, tail)

\* The widening steps as they would be if the thresholds were inclusive.
WidenedStageInclusive(user, t) ==
    LET waitingTime == t - user.joinedAt
        s1 == IF waitingTime >= WidenLocationMs /\ user.widenStage = 0
              THEN 1 ELSE user.widenStage
    IN IF waitingTime >= WidenGenderMs /\ s1 = 1 /\ user.tier # "DIAMOND"
       THEN 2 ELSE s1

\* processWidening: the stage of one user after the two widening steps.
WidenedStage(user, t) ==
    LET waitingTime == t - user.joinedAt
        s1 == IF waitingTime > WidenLocationMs /\ user.widenStage = 0
              THEN 1 ELSE user.widenStage
    IN IF waitingTime > WidenGenderMs /\ s1 = 1 /\ user.tier # "DIAMOND"
       THEN 2 ELSE s1

\* checkQueue as it would be if the user stayed queued after the signal.
RECURSIVE checkQueueKeepSignalled(_, _, _, _)
checkQueueKeepSignalled(st, queue, t, conn) ==
    IF queue = << >> THEN st
    ELSE LET user == Head(queue)
             widened == [user EXCEPT !.widenStage = WidenedStage(user, t)]
             Widen(q) == [i \in 1..Len(q) |-> IF q[i] = user THEN widened ELSE q[i]]
             st1 == [st EXCEPT !.queues = [male |-> Widen(@.male),
                                           female |-> Widen(@.female)]]
             st2 == IF t - user.joinedAt > QueueTimeoutMs /\ user.socketId \in conn
                    THEN Emit(st1, user.socketId, "no_match_found",
                              [waitedMs |-> t - user.joinedAt])
                    ELSE st1
         IN checkQueueKeepSignalled(st2, Tail(queue), t, conn)

\* processWidening, checkQueue: one pass over the array the partition held
\* when the pass began.
RECURSIVE checkQueue(_, _, _, _)
checkQueue(st, queue, t, conn) ==
    IF queue = << >> THEN st
    ELSE LET user == Head(queue)
             widened == [user EXCEPT !.widenStage = WidenedStage(user, t)]
             \* the object is widened in place wherever it is still queued
             Widen(q) == [i \in 1..Len(q) |-> IF q[i] = user THEN widened ELSE q[i]]
             st1 == [st EXCEPT !.queues = [male |-> Widen(@.male),
                                           female |-> Widen(@.female)]]
         IN IF t - user.joinedAt > QueueTimeoutMs
            THEN LET st2 == IF user.socketId \in conn
                            THEN Emit(st1, user.socketId, "no_match_found",
                                      [waitedMs |-> t - user.joinedAt])
                            ELSE st1
                 IN checkQueue(removeFromQueue(st2, user.socketId),
                               Tail(queue), t, conn)
            ELSE checkQueue(st1, Tail(queue), t, conn)

\* QueueService.processWidening
processWidening(st, t, conn) ==
    LET st1 == checkQueue(st, st.queues.male, t, conn)
    IN checkQueue(st1, st1.queues.female, t, conn)

\* The forEach as it would be without the isStillInQueue test.
RECURSIVE matchEachNoSkip(_, _, _, _, _)
matchEachNoSkip(st, snapshot, t, conn, tails) ==
    IF snapshot = << >> THEN st
    ELSE LET user == Head(snapshot)
             tail == tails[(Len(st.matched) % Len(tails)) + 1]
             st1 == IF user.socketId \in conn
                    THEN findMatch(st, user, conn, t, tail)
                    ELSE removeFromQueue(st, user.socketId)
         IN matchEachNoSkip(st1, Tail(snapshot), t, conn, tails)

\* processMatches: the forEach over the snapshot of both partitions; tails
\* are the random tails of the room ids drawn in this cycle.
RECURSIVE matchEach(_, _, _, _, _)
matchEach(st, snapshot, t, conn, tails) ==
    IF snapshot = << >> THEN st
    ELSE LET user == Head(snapshot)
             isStillInQueue == user \in Range(st.queues.male)
                                  \/ user \in Range(st.queues.female)
             tail == tails[(Len(st.matched) % Len(tails)) + 1]
             st1 == IF ~isStillInQueue THEN st
                    ELSE IF user.socketId \in conn
                         THEN findMatch(st, user, conn, t, tail)
                         ELSE removeFromQueue(st, user.socketId)
         IN matchEach(st1, Tail(snapshot), t, conn, tails)

\* QueueService.processMatches
processMatches(st, t, conn, tails) ==
    LET st1 == processWidening(st, t, conn)
    IN matchEach(st1, st1.queues.male \o st1.queues.female, t, conn, tails)

(***************************************************************************)
(* BanService and matchController.joinQueue.                               *)
(***************************************************************************)

\* isBanned reading expiresAt = 0 as a date that has passed.
isBannedUntilZero(st, uid, t) ==
    /\ MapHas(st.bannedUsers, uid)
    /\ t < st.bannedUsers[uid].expiresAt

\* isBanned reporting whatever entry is stored, expired or not.
isBannedStored(st, uid, t) == MapHas(st.bannedUsers, uid)

\* BanService.isBanned: is there an entry that has not expired at time t.
isBanned(st, uid, t) ==
    /\ MapHas(st.bannedUsers, uid)
    /\ ~(st.bannedUsers[uid].expiresAt > 0 /\ t >= st.bannedUsers[uid].expiresAt)

\* BanService.isBanned: an expired entry is deleted by the read.
dropExpiredBan(st, uid, t) ==
    IF MapHas(st.bannedUsers, uid) /\ ~isBanned(st, uid, t)
    THEN [st EXCEPT !.bannedUsers = MapDelete(@, uid)]
    ELSE st

\* BanService.getRemainingBanTime: tRead is the clock isBanned reads, tLeft
\* the clock the subtraction reads.
getRemainingBanTime(st, uid, tRead, tLeft) ==
    IF ~isBanned(st, uid, tRead) THEN 0
    ELSE IF st.bannedUsers[uid].expiresAt = 0 THEN -1
    ELSE IF st.bannedUsers[uid].expiresAt - tLeft > 0
         THEN st.bannedUsers[uid].expiresAt - tLeft
         ELSE 0

\* matchController.joinQueue: remainingMs > 0 ? Math.ceil(remainingMs / 60000) : -1
RemainingMinutes(remainingMs) ==
    IF remainingMs > 0 THEN (remainingMs + 59999) \div 60000 ELSE -1

\* matchController.joinQueue: isGuest
IsGuest(uid) == uid = "guest_3"

\* What a client may send as preferences.
ClientPreferences ==
    [gender : Genders \cup {None}, location : Locations \cup {None}]

\* The preferences enqueued as they were sent.
CleanPreferencesUnfiltered(tier, preferences) == preferences

\* matchController.joinQueue: the tier restrictions on the preferences.
CleanPreferences(tier, preferences) ==
    IF tier = "FREE" THEN [gender |-> None, location |-> None]
    ELSE IF tier = "GOLD" THEN [preferences EXCEPT !.location = None]
    ELSE preferences

\* matchController.joinQueue: the QueueUser that is enqueued.
NewQueueUser(socketId, uid, gender, location, tier, mode, preferences, t) ==
    [ socketId |-> socketId, uid |-> uid, gender |-> gender,
      location |-> location, tier |-> tier, mode |-> mode,
      preferences |-> CleanPreferences(tier, preferences),
      joinedAt |-> t, widenStage |-> 0 ]

\* socket.on('disconnect') as it would be without removeFromQueue.
onDisconnectKeepQueued(st, socketId) == handleDisconnect(st, socketId)

\* socket.on('disconnect'): removeFromQueue, then handleDisconnect.
onDisconnect(st, socketId) ==
    handleDisconnect(removeFromQueue(st, socketId), socketId)

\* BanService.banUser at time t
banUser(st, uid, reason, durationMinutes, t) ==
    [st EXCEPT !.bannedUsers =
        MapSet(@, uid, [ uid |-> uid, reason |-> reason, bannedAt |-> t,
                         expiresAt |-> IF durationMinutes > 0
                                       THEN t + durationMinutes * 60 * 1000
                                       ELSE 0 ])]

\* BanService.unbanUser
unbanUser(st, uid) == [st EXCEPT !.bannedUsers = MapDelete(@, uid)]

(***************************************************************************)
(* index.ts: the authentication middleware and the admin commands.         *)
(***************************************************************************)

\* socket.handshake.auth of a connection: { token, userId, serverKey }.
HandshakeAuth(s) ==
    IF s = "g1" THEN [token |-> None, userId |-> None, serverKey |-> None]
    ELSE IF s = "g2" THEN [token |-> "bad.jwt", userId |-> None, serverKey |-> None]
    ELSE IF s = "g3" THEN [token |-> None, userId |-> "server-admin",
                           serverKey |-> AdminServerKey]
    ELSE IF s = "g4" THEN [token |-> None, userId |-> "server-admin",
                           serverKey |-> "guessed-key"]
    ELSE [token |-> None, userId |-> SocketUser(s), serverKey |-> None]

\* effectiveUid.includes('.')
Dotted(credential) == credential \in { "bad.jwt", "good.jwt" }

\* auth.verifyIdToken: the uid of the decoded token, or None when it throws.
VerifyIdToken(token) == IF token = "good.jwt" THEN "u2" ELSE None

\* The middleware taking the name server-admin for the admin, whatever the key.
authenticateByName(auth) ==
    IF auth.userId = "server-admin"
    THEN [ok |-> TRUE, uid |-> "server-admin", isAdmin |-> TRUE]
    ELSE [ok |-> auth.userId # None \/ auth.token # None,
          uid |-> IF auth.userId # None THEN auth.userId ELSE auth.token,
          isAdmin |-> FALSE]

\* io.use: the socket.user the middleware sets, or its refusal.
authenticate(auth) ==
    LET effectiveUid == IF auth.userId # None THEN auth.userId ELSE auth.token IN
    IF auth.userId = "server-admin" /\ auth.serverKey = AdminServerKey
    THEN [ok |-> TRUE, uid |-> "server-admin", isAdmin |-> TRUE]
    ELSE IF effectiveUid = None
    THEN [ok |-> FALSE, uid |-> None, isAdmin |-> FALSE]
    ELSE IF ~Dotted(effectiveUid)
    THEN [ok |-> TRUE, uid |-> effectiveUid, isAdmin |-> FALSE]
    ELSE IF VerifyIdToken(effectiveUid) # None
    THEN [ok |-> TRUE, uid |-> VerifyIdToken(effectiveUid), isAdmin |-> FALSE]
    ELSE \* catch: 'Treating as raw UID'
         [ok |-> TRUE, uid |-> effectiveUid, isAdmin |-> FALSE]

\* socket.user of a connection
SocketAuth(s) == authenticate(HandshakeAuth(s))

AdminResult(success, action, message) ==
    [success |-> success, action |-> action, message |-> message]

\* removeFromQueue(sid) and io.to(sid).emit(ev, payload) for each target
RECURSIVE removeAndTell(_, _, _, _)
removeAndTell(st, sids, ev, payload) ==
    IF sids = << >> THEN st
    ELSE removeAndTell(Emit(removeFromQueue(st, Head(sids)), Head(sids), ev, payload),
                       Tail(sids), ev, payload)

\* socket.on('admin_kick_user')
adminKickUser(st, s, targetUid) ==
    LET targetSockets == getSocketIdsForUser(st, targetUid) IN
    IF ~SocketAuth(s).isAdmin
    THEN Emit(st, s, "admin_action_result", AdminResult(FALSE, "kick", "Unauthorized"))
    ELSE IF targetSockets # << >>
    THEN Emit(handleSkipMatch(removeAndTell(st, targetSockets, "kicked", << >>),
                              targetSockets[1]),
              s, "admin_action_result", AdminResult(TRUE, "kick", "kicked"))
    ELSE Emit(st, s, "admin_action_result",
              AdminResult(FALSE, "kick", "User not connected"))

\* socket.on('admin_ban_user') at time t
adminBanUser(st, s, targetUid, durationMinutes, t) ==
    LET st1 == banUser(st, targetUid, "reason", durationMinutes, t)
        targetSockets == getSocketIdsForUser(st1, targetUid)
        st2 == IF targetSockets # << >>
               THEN handleSkipMatch(
                        removeAndTell(st1, targetSockets, "banned",
                                      [durationMinutes |-> durationMinutes]),
                        targetSockets[1])
               ELSE st1
    IN IF ~SocketAuth(s).isAdmin
       THEN Emit(st, s, "admin_action_result", AdminResult(FALSE, "ban", "Unauthorized"))
       ELSE Emit(st2, s, "admin_action_result", AdminResult(TRUE, "ban", "banned"))

\* socket.on('admin_unban_user')
adminUnbanUser(st, s, targetUid) ==
    IF ~SocketAuth(s).isAdmin
    THEN Emit(st, s, "admin_action_result", AdminResult(FALSE, "unban", "Unauthorized"))
    ELSE IF MapHas(st.bannedUsers, targetUid)
    THEN Emit(unbanUser(st, targetUid), s, "admin_action_result",
              AdminResult(TRUE, "unban", "unbanned"))
    ELSE Emit(st, s, "admin_action_result",
              AdminResult(FALSE, "unban", "User was not banned"))

\* socket.on('admin_force_disconnect'): the sockets it disconnects.
ForceDisconnected(st, s, targetUid, conn) ==
    IF SocketAuth(s).isAdmin
    THEN Range(getSocketIdsForUser(st, targetUid)) \cap conn
    ELSE {}

\* The disconnect handlers of the sockets in sids, one after the other.
RECURSIVE disconnectAll(_, _)
disconnectAll(st, sids) ==
    IF sids = {} THEN st
    ELSE LET sid == CHOOSE x \in sids : TRUE
         IN disconnectAll(onDisconnect(st, sid), sids \ {sid})

\* socket.on('admin_force_disconnect')
adminForceDisconnect(st, s, targetUid, conn) ==
    LET targetSockets == getSocketIdsForUser(st, targetUid) IN
    IF ~SocketAuth(s).isAdmin
    THEN Emit(st, s, "admin_action_result",
              AdminResult(FALSE, "disconnect", "Unauthorized"))
    ELSE IF targetSockets # << >>
    THEN Emit(disconnectAll(st, ForceDisconnected(st, s, targetUid, conn)),
              s, "admin_action_result", AdminResult(TRUE, "disconnect", "disconnected"))
    ELSE Emit(st, s, "admin_action_result",
              AdminResult(FALSE, "disconnect", "User not connected"))

(***************************************************************************)
(* The handlers of index.ts, one action each.                              *)
(***************************************************************************)

\* io.on('connection'): a new connection of SocketUser(s).
Connect(s) ==
    /\ s \notin connected \cup closed
    /\ connected' = connected \cup {s}
    /\ Commit(handleReconnection(registerSocket(Server, s, SocketUser(s)),
                                 s, SocketUser(s)))
    /\ UNCHANGED << now, closed, joining, cycling, stableCalls >>

\* socket.on('disconnect')
Disconnect(s) ==
    /\ s \in connected
    /\ connected' = connected \ {s}
    /\ closed' = closed \cup {s}
    /\ Commit(onDisconnect(Server, s))
    /\ UNCHANGED << now, joining, cycling, stableCalls >>

\* socket.on('join_queue') of a guest: no await suspends the handler.
JoinQueueGuest(s, mode, preferences, ownGender, tail) ==
    /\ s \in connected
    /\ IsGuest(SocketUser(s))
    /\ LET uid == SocketUser(s)
           st1 == clearSession(Server, uid)
           user == NewQueueUser(s, uid, ownGender, None, "FREE", mode,
                                preferences, now)
           st2 == IF ownGender = None
                  THEN Emit(st1, s, "error", << >>)
                  ELSE joinQueue(st1, user, connected, now, tail)
       IN /\ Len(st2.activeRooms) <= MaxRooms
          /\ Commit(st2)
    /\ UNCHANGED << now, connected, closed, joining, cycling, stableCalls >>

\* socket.on('join_queue') of a profile user, up to the await of the
\* database read: the ban gate and clearSession.  The gate reads the clock
\* three times: in isBanned (now), in the isBanned of getRemainingBanTime
\* (tRead) and in its subtraction (tLeft).
JoinQueueBeginAt(s, tRead, tLeft) ==
    /\ s \in connected
    /\ ~IsGuest(SocketUser(s))
    /\ s \notin joining
    /\ Cardinality(joining) < MaxJoining
    /\ now <= tRead
    /\ tRead <= tLeft
    /\ LET uid == SocketUser(s)
           st1 == dropExpiredBan(Server, uid, now)
       IN IF isBanned(Server, uid, now)
          THEN /\ Commit(Emit(dropExpiredBan(st1, uid, tRead), s, "banned",
                              [ reason |-> Server.bannedUsers[uid].reason,
                                remainingMinutes |->
                                    RemainingMinutes(
                                        getRemainingBanTime(st1, uid, tRead, tLeft)) ]))
               /\ joining' = joining
               /\ now' = tLeft
          ELSE /\ Commit(clearSession(st1, uid))
               /\ joining' = joining \cup {s}
               /\ now' = now
    /\ UNCHANGED << connected, closed, cycling, stableCalls >>

\* The same with the three clock reads falling into one millisecond.
JoinQueueBegin(s) == JoinQueueBeginAt(s, now, now)

\* join_queue of a profile user, from the database read on.  The payload of
\* the event is read here only, so it is drawn here.
JoinQueueResume(s, mode, preferences, tail) ==
    /\ s \in joining
    /\ joining' = joining \ {s}
    /\ LET uid == SocketUser(s)
           user == NewQueueUser(s, uid, DbGender(uid), DbLocation(uid),
                                DbTier(uid), mode, preferences, now)
           st1 == joinQueue(Server, user, connected, now, tail)
       IN /\ Len(st1.activeRooms) <= MaxRooms
          /\ Commit(st1)
    /\ UNCHANGED << now, connected, closed, cycling, stableCalls >>

\* join_queue of a profile user, from the database read on, for any profile
\* the database may hold for the user.
JoinQueueResumeWith(s, profile, mode, preferences, tail) ==
    /\ s \in joining
    /\ joining' = joining \ {s}
    /\ LET uid == SocketUser(s)
           user == NewQueueUser(s, uid, profile.gender, profile.location,
                                profile.tier, mode, preferences, now)
           st1 == joinQueue(Server, user, connected, now, tail)
       IN /\ Len(st1.activeRooms) <= MaxRooms
          /\ Commit(st1)
    /\ UNCHANGED << now, connected, closed, cycling, stableCalls >>

\* socket.on('leave_queue')
LeaveQueue(s) ==
    /\ s \in connected
    /\ Commit(removeFromQueue(Server, s))
    /\ UNCHANGED << now, connected, closed, joining, cycling, stableCalls >>

\* socket.on('connection_stable')
ConnectionStable(s, roomId, service) ==
    /\ s \in connected
    /\ Commit(handleConnectionStable(Server, roomId, service))
    /\ UNCHANGED << now, connected, closed, joining, cycling, stableCalls >>

\* socket.on('reconnect')
Reconnect(s) ==
    /\ s \in connected
    /\ Commit(handleReconnection(Server, s, SocketUser(s)))
    /\ UNCHANGED << now, connected, closed, joining, cycling, stableCalls >>

\* socket.on('skip_match')
SkipMatch(s) ==
    /\ s \in connected
    /\ Commit(handleSkipMatch(Server, s))
    /\ UNCHANGED << now, connected, closed, joining, cycling, stableCalls >>

\* socket.on('accept_invite')
AcceptInvite(s, inviterUid, tail) ==
    /\ s \in connected
    /\ LET inviterSockets == getSocketIdsForUser(Server, inviterUid)
           st1 == IF inviterSockets # << >>
                  THEN createRoom(Server,
                                  [uid |-> inviterUid, socketId |-> inviterSockets[1]],
                                  [uid |-> SocketUser(s), socketId |-> s],
                                  "video", now, tail)
                  ELSE Emit(Server, s, "invite_error", << >>)
       IN /\ Len(st1.activeRooms) <= MaxRooms
          /\ Commit(st1)
    /\ UNCHANGED << now, connected, closed, joining, cycling, stableCalls >>

\* socket.on of one of the six signalling frames
Relay(s, type, to, targetUid) ==
    /\ s \in connected
    /\ Commit(relay(Server, type, s, SocketUser(s), to, targetUid))
    /\ UNCHANGED << now, connected, closed, joining, cycling, stableCalls >>

\* io.use and io.on('connection') for a connection with credentials
Handshake(s) ==
    /\ s \in GateSockets
    /\ s \notin connected \cup closed
    /\ LET user == SocketAuth(s) IN
       IF user.ok
       THEN /\ connected' = connected \cup {s}
            /\ closed' = closed
            /\ Commit(handleReconnection(registerSocket(Server, s, user.uid),
                                         s, user.uid))
       ELSE \* next(new Error('Authentication error: ...'))
            /\ connected' = connected
            /\ closed' = closed \cup {s}
            /\ Commit(Server)
    /\ UNCHANGED << now, joining, cycling, stableCalls >>

\* socket.on('admin_kick_user')
AdminKickUser(s, targetUid) ==
    /\ s \in connected
    /\ Commit(adminKickUser(Server, s, targetUid))
    /\ UNCHANGED << now, connected, closed, joining, cycling, stableCalls >>

\* socket.on('admin_ban_user')
AdminBanUser(s, targetUid, durationMinutes) ==
    /\ s \in connected
    /\ Commit(adminBanUser(Server, s, targetUid, durationMinutes, now))
    /\ UNCHANGED << now, connected, closed, joining, cycling, stableCalls >>

\* socket.on('admin_unban_user')
AdminUnbanUser(s, targetUid) ==
    /\ s \in connected
    /\ Commit(adminUnbanUser(Server, s, targetUid))
    /\ UNCHANGED << now, connected, closed, joining, cycling, stableCalls >>

\* socket.on('admin_force_disconnect')
AdminForceDisconnect(s, targetUid) ==
    /\ s \in connected
    /\ LET gone == ForceDisconnected(Server, s, targetUid, connected) IN
       /\ connected' = connected \ gone
       /\ closed' = closed \cup gone
    /\ Commit(adminForceDisconnect(Server, s, targetUid, connected))
    /\ UNCHANGED << now, joining, cycling, stableCalls >>

\* setInterval: processMatches, then cleanupStaleRooms.
Tick(tails) ==
    /\ LET st1 == processMatches(Server, now, connected, tails)
           st2 == cleanupStaleRooms(st1, now, connected)
       IN /\ Len(st1.activeRooms) <= MaxRooms
          /\ Commit(st2)
    /\ UNCHANGED << now, connected, closed, joining, cycling, stableCalls >>

\* The clock moves on.
Advance ==
    /\ now + TimeStep <= MaxSteps * TimeStep
    /\ now' = now + TimeStep
    /\ Commit(Server)
    /\ UNCHANGED << connected, closed, joining, cycling, stableCalls >>

\* The clock jumps to a later instant.
AdvanceTo(t) ==
    /\ t > now
    /\ now' = t
    /\ Commit(Server)
    /\ UNCHANGED << connected, closed, joining, cycling, stableCalls >>

\* A replica is a process running this program; with REDIS_URL set the
\* adapter joins the replicas.  r1 is the process whose tables the state
\* holds, r2 a peer with tables of its own.
Replicas == { "r1", "r2" }

\* The interval timer of replica r fires: its callback starts.
CycleBegin(r) ==
    /\ r \notin cycling
    /\ cycling' = cycling \cup {r}
    /\ Commit(Server)
    /\ UNCHANGED << now, connected, closed, joining, stableCalls >>

\* The callback of replica r returns: processMatches and cleanupStaleRooms
\* have run on the tables of r.
CycleEnd(r, tails) ==
    /\ r \in cycling
    /\ cycling' = cycling \ {r}
    /\ IF r = "r1"
       THEN LET st1 == processMatches(Server, now, connected, tails)
                st2 == cleanupStaleRooms(st1, now, connected)
            IN /\ Len(st1.activeRooms) <= MaxRooms
               /\ Commit(st2)
       ELSE Commit(Server)
    /\ UNCHANGED << now, connected, closed, joining, stableCalls >>

RoomIds == {activeRooms[i].roomId : i \in 1..Len(activeRooms)}

\* The join_queue payloads explored: every mode, and every preference alone.
JoinInputs ==
    { [mode |-> "random", preferences |-> [gender |-> None, location |-> None]],
      [mode |-> "video", preferences |-> [gender |-> None, location |-> None]],
      [mode |-> "random", preferences |-> [gender |-> "male", location |-> None]],
      [mode |-> "random", preferences |-> [gender |-> "female", location |-> None]],
      [mode |-> "random", preferences |-> [gender |-> None, location |-> "IN"]],
      [mode |-> "random", preferences |-> [gender |-> None, location |-> "US"]] }

RECURSIVE registerAll(_, _)
registerAll(st, sockets) ==
    IF sockets = << >> THEN st
    ELSE registerAll(registerSocket(st, Head(sockets), SocketUser(Head(sockets))),
                     Tail(sockets))

\* The state after the connections in the sequence opened have connected in
\* this order, and nothing else has happened; the other ids are used up.
Opened(opened) ==
    /\ now = 0
    /\ joining = {}
    /\ queues = [male |-> << >>, female |-> << >>]
    /\ activeRooms = << >>
    /\ sessionCache = EmptyMap
    /\ bannedUsers = EmptyMap
    /\ emits = << >>
    /\ matched = << >>
    /\ unregistered = << >>
    /\ replaced = {}
    /\ cycling = {}
    /\ stableCalls = {}
    /\ connected = Range(opened)
    /\ closed = Sockets \ Range(opened)
    /\ LET st == registerAll([socketToUid |-> EmptyMap, uidToSocket |-> EmptyMap,
                              regOrder |-> [u \in AllUids |-> << >>]], opened)
       IN /\ socketToUid = st.socketToUid
          /\ uidToSocket = st.uidToSocket
          /\ regOrder = st.regOrder

(***************************************************************************)
(* The socket registry: connections open and close, and the handlers that  *)
(* register a socket (connection, reconnect into a pending room) run.      *)
(***************************************************************************)
NextRegistry ==
    \/ \E s \in Sockets : Connect(s)
    \/ \E s \in Sockets : Disconnect(s)
    \/ \E s \in Sockets : Reconnect(s)
    \/ \E s \in Sockets, inviterUid \in Uids, tail \in RoomTails :
          AcceptInvite(s, inviterUid, tail)
    \/ \E s \in Sockets : SkipMatch(s)

SpecRegistry == Init /\ [][NextRegistry]_vars

(***************************************************************************)
(* The queue and the match engine.  The connections of a world are open    *)
(* from the start: two users, or u1 with two tabs and u2.  Every queue     *)
(* operation, skip_match, the tick and the clock run.                      *)
(***************************************************************************)
QueueWorlds ==
    { << "s1", "s2" >>, << "s1", "s3" >>, << "s2", "s3" >>, << "s1", "s2", "s4" >> }

\* The join_queue payloads of a guest explored: its preferences are dropped.
GuestInputs ==
    { [mode |-> "random", preferences |-> [gender |-> None, location |-> None]],
      [mode |-> "video", preferences |-> [gender |-> "male", location |-> "IN"]] }

InitQueue == \E opened \in QueueWorlds : Opened(opened)

NextQueue ==
    \/ \E s \in Sockets : Disconnect(s)
    \/ \E s \in Sockets, in \in GuestInputs, ownGender \in Genders \cup {None} :
          /\ JoinQueueGuest(s, in.mode, in.preferences, ownGender, 0)
          /\ Len(activeRooms') <= MaxQueueRooms
    \/ \E s \in Sockets : JoinQueueBegin(s)
    \/ \E s \in Sockets, in \in JoinInputs :
          /\ JoinQueueResume(s, in.mode, in.preferences, 0)
          /\ Len(activeRooms') <= MaxQueueRooms
    \/ \E s \in Sockets : LeaveQueue(s)
    \/ \E s \in Sockets : SkipMatch(s)
    \/ /\ Tick(<< 0 >>)
       /\ Len(activeRooms') <= MaxQueueRooms
    \/ Advance

SpecQueue == InitQueue /\ [][NextQueue]_vars

\* C1: whatever has been joined, left, disconnected, matched and ticked, no
\* uid has more than one QueueUser in the male and female partitions together.
C1_OneQueueUserPerUid ==
    LET all == queues.male \o queues.female IN
    \A i, j \in 1..Len(all) : all[i].uid = all[j].uid => i = j

\* u1, queued from s1, has just joined again from its second tab s4: the entry
\* of s1 was removed and the one of s4 waits in the queue.
C1_Witness ==
    /\ "s1" \in replaced
    /\ \E i \in 1..Len(queues.male) :
          queues.male[i].uid = "u1" /\ queues.male[i].socketId = "s4"

\* C7: every pair handed to executeMatch satisfies the gender rule both ways:
\* what each side looks for (its preferred gender if set, else the opposite
\* of its own below stage 2, else any) accepts the other side's gender.
C7_ReciprocalGender ==
    \A i \in 1..Len(matched) :
        LET U == matched[i].user
            C == matched[i].candidate
            t(X) == IF X.preferences.gender # None THEN X.preferences.gender
                    ELSE IF X.widenStage < 2 THEN Opposite(X.gender)
                    ELSE "any"
        IN /\ t(U) \in {"any", C.gender}
           /\ t(C) \in {"any", U.gender}

\* A pair of one gender has been matched: one side asked for that gender and
\* the other had widened to stage 2.
C7_Witness ==
    \E i \in 1..Len(matched) :
        /\ matched[i].user.gender = matched[i].candidate.gender
        /\ matched[i].user.preferences.gender = matched[i].user.gender
        /\ matched[i].candidate.widenStage = 2

\* C8: every matched pair satisfies the location rule both ways: a side with
\* a location preference at stage 0 is paired only with a partner whose
\* location is the preferred one.
C8_LocationBothWays ==
    \A i \in 1..Len(matched) :
        LET U == matched[i].user
            C == matched[i].candidate
        IN /\ (U.preferences.location # None /\ U.widenStage < 1)
                 => C.location = U.preferences.location
           /\ (C.preferences.location # None /\ C.widenStage < 1)
                 => U.location = C.preferences.location

\* C9: the two sides of every matched pair are queued in the same mode.
C9_SameMode ==
    \A i \in 1..Len(matched) : matched[i].user.mode = matched[i].candidate.mode

\* C10: no pair handed to executeMatch has the same uid on both sides, also
\* when a uid joins again from a second socket.
C10_NoSelfMatch ==
    \A i \in 1..Len(matched) : matched[i].user.uid # matched[i].candidate.uid

\* u1, queued from s1, joined again from s4 and was matched at once, with u2.
C10_Witness ==
    /\ "s1" \in replaced
    /\ \E i \in 1..Len(matched) :
          /\ matched[i].user.uid = "u1"
          /\ matched[i].user.socketId = "s4"
          /\ matched[i].candidate.uid = "u2"

\* C15: when a handler hands a pair to executeMatch and one of the two uids
\* has no socket binding, no pending room is added, no match_found is
\* emitted, and neither uid is in the queue afterwards.
C15_UnboundMatchAborts ==
    [][ \A i \in 1..Len(matched') :
          LET U == matched'[i].user
              C == matched'[i].candidate
              all == queues.male' \o queues.female'
          IN (~MapHas(uidToSocket', U.uid) \/ ~MapHas(uidToSocket', C.uid)) =>
               /\ Range(activeRooms') \subseteq Range(activeRooms)
               /\ \A e \in 1..Len(emits') : emits'[e].ev # "match_found"
               /\ \A k \in 1..Len(all) : all[k].uid \notin {U.uid, C.uid} ]_vars

\* u1, queued from s1 and left without a binding when its newer tab s4 closed,
\* has been paired with u2: nothing was emitted and no room exists.
C15_Witness ==
    /\ \E i \in 1..Len(matched) :
          "u1" \in {matched[i].user.uid, matched[i].candidate.uid}
    /\ ~MapHas(uidToSocket, "u1")
    /\ emits = << >>
    /\ activeRooms = << >>
    /\ queues = [male |-> << >>, female |-> << >>]

\* C16: when a handler matches one pair (A, B) of bound uids, its match_found
\* events are exactly two, of one room that is now pending: role A, initiator,
\* to A's registered socket, naming B's uid and B's registered socket; and
\* role B, not initiator, to B's registered socket, naming A's uid and A's
\* registered socket.
C16_MatchFoundToBothSides ==
    \A i \in 1..Len(matched) :
        LET A == matched[i].user
            B == matched[i].candidate
            found == SelectSeq(emits, LAMBDA e : e.ev = "match_found")
        IN (Len(matched) = 1 /\ MapHas(uidToSocket, A.uid) /\ MapHas(uidToSocket, B.uid)) =>
             LET a == uidToSocket[A.uid]
                 b == uidToSocket[B.uid]
             IN /\ Len(found) = 2
                /\ found[1].payload.roomId = found[2].payload.roomId
                /\ found[1].payload.roomId \in RoomIds
                /\ found[1] = [ to |-> a, ev |-> "match_found",
                                payload |-> MatchFound(found[1].payload.roomId, "A",
                                                       b, B.uid, TRUE, FALSE) ]
                /\ found[2] = [ to |-> b, ev |-> "match_found",
                                payload |-> MatchFound(found[1].payload.roomId, "B",
                                                       a, A.uid, FALSE, FALSE) ]

\* u1 was queued from s1 while bound to its newer tab s4: the match_found of
\* its match went to s4.
C16_Witness ==
    /\ \E i \in 1..Len(matched) :
          matched[i].user.uid = "u1" /\ matched[i].user.socketId = "s1"
    /\ MapHas(uidToSocket, "u1") /\ uidToSocket["u1"] = "s4"
    /\ \E e \in 1..Len(emits) :
          /\ emits[e].to = "s4"
          /\ emits[e].ev = "match_found"
          /\ emits[e].payload.role = "A"

(***************************************************************************)
(* Rooms and sessions: s1, s2 and s3 are open; their users join the queue  *)
(* in mode random without preferences and leave it, report connections     *)
(* stable, reconnect and skip, and the tick runs.                          *)
(***************************************************************************)
InitSession == Opened(<< "s1", "s2", "s3" >>)

NextSession ==
    \/ \E s \in Sockets, tail \in RoomTails :
          JoinQueueGuest(s, "random", [gender |-> None, location |-> None],
                         "female", tail)
    \/ \E s \in Sockets : JoinQueueBegin(s)
    \/ \E s \in Sockets, tail \in RoomTails :
          JoinQueueResume(s, "random", [gender |-> None, location |-> None], tail)
    \/ \E s \in Sockets, roomId \in RoomIds, service \in Services :
          ConnectionStable(s, roomId, service)
    \/ \E s \in Sockets : LeaveQueue(s)
    \/ \E s \in Sockets : Reconnect(s)
    \/ \E s \in Sockets : SkipMatch(s)
    \/ \E tails \in [1..1 -> RoomTails] : Tick(tails)

SpecSession == InitSession /\ [][NextSession]_vars

\* C2: no uid has more than one session entry (sessionCache is keyed by uid)
\* and no uid is a party, as playerA or playerB, of more than one pending room.
C2_OneRoomPerUid ==
    \A uid \in Uids :
        Cardinality({ i \in 1..Len(activeRooms) :
                        \/ activeRooms[i].playerA.uid = uid
                        \/ activeRooms[i].playerB.uid = uid }) <= 1

\* C3: the session table is symmetric: the opponent of every entry has an
\* entry of the same room whose opponent is the entry's uid.
C3_SessionsSymmetric ==
    \A x \in DOMAIN sessionCache :
        LET y == sessionCache[x].opponentId IN
        /\ MapHas(sessionCache, y)
        /\ sessionCache[y].opponentId = x
        /\ sessionCache[y].roomId = sessionCache[x].roomId

\* C4: no uid with a session entry has an entry in a queue partition.
C4_SessionNotQueued ==
    \A uid \in DOMAIN sessionCache :
        /\ \A i \in 1..Len(queues.male) : queues.male[i].uid # uid
        /\ \A i \in 1..Len(queues.female) : queues.female[i].uid # uid

(***************************************************************************)
(* The matching cycle: s1, s2 and s3 are open, their users join the queue  *)
(* in mode random (u1 with and without a preference for its own location,  *)
(* the guest as a woman or a man), and the tick and the clock run.         *)
(***************************************************************************)
CycleInputs ==
    { [mode |-> "random", preferences |-> [gender |-> None, location |-> None]],
      [mode |-> "random", preferences |-> [gender |-> None, location |-> "IN"]] }

NextCycle ==
    \/ \E s \in Sockets, ownGender \in Genders :
          /\ JoinQueueGuest(s, "random", [gender |-> None, location |-> None],
                            ownGender, 0)
          /\ Len(activeRooms') <= MaxQueueRooms
    \/ \E s \in Sockets : JoinQueueBegin(s)
    \/ \E s \in Sockets, in \in CycleInputs :
          /\ JoinQueueResume(s, in.mode, in.preferences, 0)
          /\ Len(activeRooms') <= MaxQueueRooms
    \/ /\ Tick(<< 0 >>)
       /\ Len(activeRooms') <= MaxQueueRooms
    \/ Advance

SpecCycle == InitSession /\ [][NextCycle]_vars

\* C11: the pairs one handler run hands to executeMatch share no uid, and
\* neither uid of a pair has an entry in the queue afterwards.
C11_MatchedOnceAndDequeued ==
    LET all == queues.male \o queues.female
        slots == (1..Len(matched)) \X {"user", "candidate"}
        uidAt(x) == IF x[2] = "user" THEN matched[x[1]].user.uid
                    ELSE matched[x[1]].candidate.uid
    IN /\ \A x, y \in slots : uidAt(x) = uidAt(y) => x = y
       /\ \A x \in slots : \A i \in 1..Len(all) : all[i].uid # uidAt(x)

\* A cycle has matched a seeker that had been waiting, and a third user that
\* was visited in the same cycle is still queued.
C11_Witness ==
    /\ \E i \in 1..Len(matched) : matched[i].user.joinedAt < now
    /\ Len(queues.male \o queues.female) = 1

\* C12: a matching cycle is oldest first.  In the state a cycle leaves, a
\* user R that is still queued and that the seeker U of a matched pair accepts
\* is not older than the candidate C chosen for U; and if R and C accept each
\* other, R is not older than U, which was matched in R's place.
C12_OldestFirst ==
    LET st == processMatches(Server, now, connected, << 0 >>)
        all == st.queues.male \o st.queues.female
    IN \A i \in 1..Len(st.matched), k \in 1..Len(all) :
        LET U == st.matched[i].user
            C == st.matched[i].candidate
            R == all[k]
        IN /\ Accepts(U, R, connected) => R.joinedAt >= C.joinedAt
           /\ (Accepts(C, R, connected) /\ Accepts(R, C, connected))
                 => R.joinedAt >= U.joinedAt

(***************************************************************************)
(* Waiting: s1 (u1, DIAMOND), s2 (u2, GOLD) and s3 (a guest) are open; the *)
(* users join in mode random without preferences and leave, and the tick   *)
(* runs while the clock moves through the instants around the thresholds.  *)
(***************************************************************************)
Instants == { 5000, 5001, 10000, 10001, 30000, 30001 }

NextWaiting ==
    \/ \E s \in Sockets, ownGender \in Genders :
          /\ JoinQueueGuest(s, "random", [gender |-> None, location |-> None],
                            ownGender, 0)
          /\ Len(activeRooms') <= MaxQueueRooms
    \/ \E s \in Sockets : JoinQueueBegin(s)
    \/ \E s \in Sockets :
          /\ JoinQueueResume(s, "random", [gender |-> None, location |-> None], 0)
          /\ Len(activeRooms') <= MaxQueueRooms
    \/ \E s \in Sockets : LeaveQueue(s)
    \/ /\ Tick(<< 0 >>)
       /\ Len(activeRooms') <= MaxQueueRooms
    \/ \E t \in Instants : AdvanceTo(t)

SpecWaiting == InitSession /\ [][NextWaiting]_vars

\* C13: the stage a tick gives a queued user is fixed by its wait and tier:
\* 0 up to 5000 ms, 1 from 5001 ms, 2 above 10000 ms unless the tier is
\* DIAMOND, which stays at 1; and a tick never lowers a stage.
C13_StageByWaitAndTier ==
    LET st == processWidening(Server, now, connected)
        before == queues.male \o queues.female
        after == st.queues.male \o st.queues.female
    IN \A k \in 1..Len(after) :
        LET u == after[k]
            wait == now - u.joinedAt
        IN /\ u.widenStage = IF wait <= 5000 THEN 0
                             ELSE IF wait > 10000 /\ u.tier # "DIAMOND" THEN 2
                             ELSE 1
           /\ \A j \in 1..Len(before) :
                 before[j].uid = u.uid => before[j].widenStage <= u.widenStage

\* Ticks have run: a DIAMOND user that has waited more than 10 s is at stage
\* 1 and a user of another tier is at stage 2.
C13_Witness ==
    LET all == queues.male \o queues.female IN
    /\ \E k \in 1..Len(all) :
          /\ all[k].tier = "DIAMOND"
          /\ now - all[k].joinedAt > 10000
          /\ all[k].widenStage = 1
    /\ \E k \in 1..Len(all) : all[k].tier # "DIAMOND" /\ all[k].widenStage = 2

C14_SignalledStaysQueued ==
    LET all == queues.male \o queues.female IN
    \A e \in 1..Len(emits) :
        emits[e].ev = "no_match_found" =>
            \E k \in 1..Len(all) : all[k].socketId = emits[e].to

\* C20: skip_match from a socket whose uid has a session entry leaves neither
\* that uid nor its opponent with a session entry, touches no other entry,
\* and emits match_skipped to the registered socket of each of the two.
C20_SkipClearsBothEntries ==
    \A s \in DOMAIN socketToUid :
        LET uid == socketToUid[s] IN
        MapHas(sessionCache, uid) =>
            LET opponentUid == sessionCache[uid].opponentId
                st == handleSkipMatch(Server, s)
            IN /\ DOMAIN st.sessionCache = DOMAIN sessionCache \ {uid, opponentUid}
               /\ \A u \in DOMAIN st.sessionCache :
                     st.sessionCache[u] = sessionCache[u]
               /\ \A u \in {uid, opponentUid} :
                     MapHas(uidToSocket, u) =>
                        \E e \in 1..Len(st.emits) :
                           /\ st.emits[e].to = uidToSocket[u]
                           /\ st.emits[e].ev = "match_skipped"

\* A skip_match has just torn down a session and a pending room of the
\* skipper: four match_skipped events, and no session entry is left.
C20_Witness ==
    /\ Len(emits) = 4
    /\ \A e \in 1..Len(emits) : emits[e].ev = "match_skipped"
    /\ emits[1].to # emits[2].to
    /\ sessionCache = EmptyMap

(***************************************************************************)
(* The handshake: s1, s2 and s3 are open; rooms of mode video come from     *)
(* accept_invite and from the queue, rooms of mode random from the queue;   *)
(* the services report connection_stable and users skip.  A new room gets   *)
(* an id that no room and no session carries.                              *)
(***************************************************************************)
UsedRoomIds == RoomIds \cup {sessionCache[u].roomId : u \in DOMAIN sessionCache}

HandshakeInputs ==
    { [mode |-> "random", preferences |-> [gender |-> None, location |-> None]],
      [mode |-> "video", preferences |-> [gender |-> None, location |-> None]] }

NextHandshake ==
    \/ \E s \in Sockets, inviterUid \in Uids, tail \in RoomTails :
          /\ << now, tail >> \notin UsedRoomIds
          /\ AcceptInvite(s, inviterUid, tail)
    \/ \E s \in Sockets, tail \in RoomTails :
          /\ << now, tail >> \notin UsedRoomIds
          /\ JoinQueueGuest(s, "random", [gender |-> None, location |-> None],
                            "female", tail)
    \/ \E s \in Sockets : JoinQueueBegin(s)
    \/ \E s \in Sockets, in \in HandshakeInputs, tail \in RoomTails :
          /\ << now, tail >> \notin UsedRoomIds
          /\ JoinQueueResume(s, in.mode, in.preferences, tail)
    \/ \E s \in Sockets, roomId \in RoomIds, service \in Services :
          ConnectionStable(s, roomId, service)
    \/ \E s \in Sockets : SkipMatch(s)

SpecHandshake == InitSession /\ [][NextHandshake]_vars

\* C17: connection_stable for a pending room sets the flag of the service.
\* The room is finalized exactly when every expected service is then ready:
\* the room is deleted, each of its uids has a session entry of this room
\* naming the other, and session_established goes to both sockets.  Otherwise
\* the room stays pending, nothing is emitted and no session is written; and
\* no session entry carries the id of a pending room.
C17_FinalizedWhenAllReady ==
    /\ \A i \in 1..Len(activeRooms), service \in Services :
          LET room == activeRooms[i]
              A == room.playerA
              B == room.playerB
              st == handleConnectionStable(Server, room.roomId, service)
              j == RoomIndex(st.activeRooms, room.roomId)
              ready(sv) == \/ sv = service
                           \/ IF sv = "game" THEN room.gameReady ELSE room.videoReady
              allReady == \A sv \in room.expectedServices : ready(sv)
          IN /\ allReady <=> j = 0
             /\ j # 0 =>
                   /\ st.activeRooms =
                         [activeRooms EXCEPT ![i].gameReady = ready("game"),
                                             ![i].videoReady = ready("video")]
                   /\ st.sessionCache = sessionCache
                   /\ st.emits = << >>
             /\ j = 0 =>
                   /\ st.activeRooms = RoomsDelete(activeRooms, room.roomId)
                   /\ DOMAIN st.sessionCache = DOMAIN sessionCache \cup {A.uid, B.uid}
                   /\ st.sessionCache[B.uid] =
                         [roomId |-> room.roomId, opponentId |-> A.uid, role |-> "B"]
                   /\ A.uid # B.uid =>
                         st.sessionCache[A.uid] =
                           [roomId |-> room.roomId, opponentId |-> B.uid, role |-> "A"]
                   /\ \A u \in DOMAIN sessionCache \ {A.uid, B.uid} :
                         st.sessionCache[u] = sessionCache[u]
                   /\ st.emits =
                         << [to |-> A.socketId, ev |-> "session_established",
                             payload |-> [roomId |-> room.roomId]],
                            [to |-> B.socketId, ev |-> "session_established",
                             payload |-> [roomId |-> room.roomId]] >>
    /\ \A u \in DOMAIN sessionCache : sessionCache[u].roomId \notin RoomIds

\* The second report has just finalized a room of mode video between u1 and
\* u2 while a room of mode random is still pending with video reported.
C17_Witness ==
    /\ Len(emits) = 2
    /\ emits[1].ev = "session_established"
    /\ emits[2].ev = "session_established"
    /\ MapHas(sessionCache, "u1")
    /\ MapHas(sessionCache, "u2")
    /\ sessionCache["u1"].roomId = emits[1].payload.roomId
    /\ \E i \in 1..Len(activeRooms) :
          /\ activeRooms[i].expectedServices = {"game"}
          /\ activeRooms[i].videoReady
          /\ ~activeRooms[i].gameReady

\* C34: when a handler has emitted match_found for a new pairing, it has
\* emitted it to both sides, the room is pending and no session entry of
\* that room exists yet; when a handler has emitted session_established for
\* a room, the session entries of both of its parties are written.
C34_MatchFoundBeforeSessions ==
    \A e \in 1..Len(emits) :
        LET roomId == emits[e].payload.roomId IN
        /\ (emits[e].ev = "match_found" /\ ~emits[e].payload.isReconnection)
           => /\ \A uid \in DOMAIN sessionCache : sessionCache[uid].roomId # roomId
              /\ roomId \in RoomIds
              /\ \A role \in { "A", "B" } :
                    \E f \in 1..Len(emits) :
                       /\ emits[f].ev = "match_found"
                       /\ emits[f].payload.roomId = roomId
                       /\ emits[f].payload.role = role
        /\ emits[e].ev = "session_established"
           => \E a, b \in DOMAIN sessionCache :
                 /\ sessionCache[b] = [roomId |-> roomId, opponentId |-> a,
                                       role |-> "B"]
                 /\ \/ a = b
                    \/ sessionCache[a] = [roomId |-> roomId, opponentId |-> b,
                                          role |-> "A"]

\* A room of u1 and u2 has just been finalized: session_established was
\* emitted twice and both entries of the room are there, each naming the
\* other.
C34_Witness ==
    /\ Len(emits) = 2
    /\ emits[1].ev = "session_established"
    /\ emits[2].ev = "session_established"
    /\ { "u1", "u2" } \subseteq DOMAIN sessionCache
    /\ sessionCache["u1"].roomId = emits[1].payload.roomId
    /\ sessionCache["u2"].roomId = emits[1].payload.roomId
    /\ sessionCache["u1"].opponentId = "u2"
    /\ sessionCache["u2"].opponentId = "u1"

\* C39: connection_stable for a pending room, sent by a connection whose
\* user is neither playerA nor playerB of the room, leaves the rooms (their
\* readiness flags included) and the sessions as they are.
C39_OnlyPartiesAdvance ==
    \A s \in connected, i \in 1..Len(activeRooms), service \in Services :
        SocketUser(s) \notin { activeRooms[i].playerA.uid, activeRooms[i].playerB.uid }
        => LET st == handleConnectionStable(Server, activeRooms[i].roomId, service)
           IN /\ st.activeRooms = activeRooms
              /\ st.sessionCache = sessionCache
              /\ st.emits = << >>

\* C18: every pending room expects the service video, and a room that has
\* had no report yet is finalized by connection_stable with service video.
C18_VideoAloneFinalizes ==
    \A i \in 1..Len(activeRooms) :
        LET room == activeRooms[i]
            st == handleConnectionStable(Server, room.roomId, "video")
        IN /\ "video" \in room.expectedServices
           /\ (~room.gameReady /\ ~room.videoReady) =>
                 /\ RoomIndex(st.activeRooms, room.roomId) = 0
                 /\ MapHas(st.sessionCache, room.playerA.uid)
                 /\ MapHas(st.sessionCache, room.playerB.uid)
                 /\ \E e \in 1..Len(st.emits) : st.emits[e].ev = "session_established"

(***************************************************************************)
(* The reaper: s1 and s2 are open; accept_invite creates rooms at 0 and at  *)
(* 20 s, one room at a time; the services report, users skip and           *)
(* disconnect, and the clock moves through the instants around the          *)
(* deadlines.  The interval timer keeps firing and the clock keeps moving.  *)
(***************************************************************************)
ReaperInstants == { 20000, 30000, 30001, 50001 }

LastInstant == 50001

ReaperTick == Tick(<< 0 >>)

ReaperClock == \E t \in ReaperInstants : AdvanceTo(t)

NextReaper ==
    \/ \E s \in Sockets, inviterUid \in Uids :
          /\ now + RoomTimeoutMs < LastInstant
          /\ AcceptInvite(s, inviterUid, 0)
          /\ Len(activeRooms') <= MaxQueueRooms
    \/ \E s \in Sockets, roomId \in RoomIds, service \in Services :
          ConnectionStable(s, roomId, service)
    \/ \E s \in Sockets : SkipMatch(s)
    \/ \E s \in Sockets : Disconnect(s)
    \/ ReaperTick
    \/ ReaperClock

InitReaper == Opened(<< "s1", "s2" >>)

SpecReaper ==
    /\ InitReaper
    /\ [][NextReaper]_vars
    /\ WF_vars(ReaperTick)
    /\ WF_vars(ReaperClock)

\* C19: the reaper removes exactly the pending rooms created more than 30 s
\* ago and emits match_error to the sockets of both parties of each (a closed
\* socket gets nothing), leaving younger rooms alone; and a pending room
\* eventually leaves the pending table, which then is empty.
C19_StaleRoomsReaped ==
    /\ [](LET st == cleanupStaleRooms(Server, now, connected)
              stale == { i \in 1..Len(activeRooms) :
                           now - activeRooms[i].createdAt > RoomTimeoutMs }
              parties == UNION { { activeRooms[i].playerA.socketId,
                                   activeRooms[i].playerB.socketId } : i \in stale }
          IN /\ st.activeRooms =
                   SelectSeq(activeRooms,
                             LAMBDA r : now - r.createdAt <= RoomTimeoutMs)
             /\ \A e \in 1..Len(st.emits) :
                   st.emits[e].ev = "match_error" /\ st.emits[e].to \in parties
             /\ \A sid \in parties \cap connected :
                   \E e \in 1..Len(st.emits) : st.emits[e].to = sid
             /\ st.sessionCache = sessionCache)
    /\ (activeRooms # << >>) ~> (activeRooms = << >>)

\* A tick at 30001 ms has just reaped the room created at 0 and has told both
\* of its parties.
C19_Witness ==
    /\ now = 30001
    /\ activeRooms = << >>
    /\ Len(emits) = 2
    /\ emits[1].ev = "match_error"
    /\ emits[2].ev = "match_error"
    /\ emits[1].to # emits[2].to

(***************************************************************************)
(* Teardown and resumption: s1 and s4 (both u1, bound to s4) and s2 (u2)    *)
(* are open; accept_invite of another user's invite creates rooms, the      *)
(* services report, and sockets close, ask to resume and skip.              *)
(***************************************************************************)
InitTeardown == Opened(<< "s1", "s2", "s4" >>)

NextTeardown ==
    \/ \E s \in Sockets : \E inviterUid \in Uids \ {SocketUser(s)} :
          /\ << now, 0 >> \notin UsedRoomIds
          /\ AcceptInvite(s, inviterUid, 0)
          /\ Len(activeRooms') <= MaxQueueRooms
    \/ \E s \in Sockets, roomId \in RoomIds, service \in Services :
          ConnectionStable(s, roomId, service)
    \/ \E s \in Sockets : Disconnect(s)
    \/ \E s \in Sockets : Reconnect(s)
    \/ \E s \in Sockets : SkipMatch(s)

SpecTeardown == InitTeardown /\ [][NextTeardown]_vars

\* C21: when the socket a uid was bound to has just disconnected, that uid
\* has no session entry, no session entry names it as the opponent, and if it
\* had one (an entry naming it is what is left of that) the opponent's socket
\* has been sent match_skipped.
C21_DisconnectEndsSession ==
    \A i \in 1..Len(unregistered) :
        LET d == unregistered[i] IN
        d.boundTo = d.socketId =>
            /\ ~MapHas(sessionCache, d.uid)
            /\ \A u \in DOMAIN sessionCache : sessionCache[u].opponentId # d.uid

\* C22: reconnection of a uid that has a session entry changes no table and
\* emits, to the rejoining socket, match_found with isReconnection true, the
\* opponent's uid and the socket the opponent is registered with at that
\* time; and to that socket, opponent_reconnected with the rejoiner's socket.
C22_ResumeNamesCurrentSocket ==
    \A s \in connected :
        LET uid == SocketUser(s) IN
        MapHas(sessionCache, uid) =>
            LET session == sessionCache[uid]
                bound == MapHas(uidToSocket, session.opponentId)
                opponentSocketId == IF bound THEN uidToSocket[session.opponentId]
                                    ELSE None
                st == handleReconnection(Server, s, uid)
            IN /\ st.sessionCache = sessionCache
               /\ st.activeRooms = activeRooms
               /\ Len(st.emits) >= 1
               /\ st.emits[1] =
                     [ to |-> s, ev |-> "match_found",
                       payload |-> MatchFound(session.roomId, session.role,
                                              opponentSocketId, session.opponentId,
                                              session.role = "A", TRUE) ]
               /\ (bound /\ opponentSocketId # s) =>
                     /\ Len(st.emits) = 2
                     /\ st.emits[2].to = opponentSocketId
                     /\ st.emits[2].ev = "opponent_reconnected"
                     /\ "opponentSocketId" \in DOMAIN st.emits[2].payload
                     /\ st.emits[2].payload.opponentSocketId = s

\* C32: handleReconnection of a connected socket whose uid has no session
\* entry and is a party of a pending room puts the socket's id in that party
\* of the first such room and changes nothing else in the rooms (the flags,
\* createdAt and the other party stay), binds the uid to the socket, leaves
\* the sessions alone and emits one match_found to the socket, with the
\* room's id, the party's role and isReconnection set.
C32_PendingRoomResumed ==
    \A s \in connected :
        LET uid == SocketUser(s)
            mine == { k \in 1..Len(activeRooms) :
                        uid \in { activeRooms[k].playerA.uid,
                                  activeRooms[k].playerB.uid } }
        IN (~MapHas(sessionCache, uid) /\ mine # {})
           => LET i == CHOOSE k \in mine : \A j \in mine : k <= j
                  room == activeRooms[i]
                  asA == room.playerA.uid = uid
                  st == handleReconnection(Server, s, uid)
              IN /\ Len(st.activeRooms) = Len(activeRooms)
                 /\ \A k \in 1..Len(activeRooms) :
                       k # i => st.activeRooms[k] = activeRooms[k]
                 /\ st.activeRooms[i].roomId = room.roomId
                 /\ st.activeRooms[i].gameReady = room.gameReady
                 /\ st.activeRooms[i].videoReady = room.videoReady
                 /\ st.activeRooms[i].expectedServices = room.expectedServices
                 /\ st.activeRooms[i].createdAt = room.createdAt
                 /\ st.activeRooms[i].playerA.uid = room.playerA.uid
                 /\ st.activeRooms[i].playerB.uid = room.playerB.uid
                 /\ IF asA
                    THEN /\ st.activeRooms[i].playerA.socketId = s
                         /\ st.activeRooms[i].playerB = room.playerB
                    ELSE /\ st.activeRooms[i].playerB.socketId = s
                         /\ st.activeRooms[i].playerA = room.playerA
                 /\ st.uidToSocket[uid] = s
                 /\ st.socketToUid[s] = uid
                 /\ st.sessionCache = sessionCache
                 /\ Len(st.emits) = 1
                 /\ st.emits[1].to = s
                 /\ st.emits[1].ev = "match_found"
                 /\ st.emits[1].payload.roomId = room.roomId
                 /\ st.emits[1].payload.role = (IF asA THEN "A" ELSE "B")
                 /\ st.emits[1].payload.isReconnection

\* u1 entered a room from s1 and has just sent reconnect from its other
\* connection s4: the room names s4 for u1, still has the game flag set
\* before, u1 is bound to s4, and match_found went to s4 as a reconnection.
C32_Witness ==
    /\ ~MapHas(sessionCache, "u1")
    /\ MapHas(uidToSocket, "u1") /\ uidToSocket["u1"] = "s4"
    /\ "s1" \in connected
    /\ Len(activeRooms) = 1
    /\ activeRooms[1].gameReady
    /\ \/ activeRooms[1].playerA = [uid |-> "u1", socketId |-> "s4"]
       \/ activeRooms[1].playerB = [uid |-> "u1", socketId |-> "s4"]
    /\ Len(emits) = 1
    /\ emits[1].to = "s4"
    /\ emits[1].ev = "match_found"
    /\ emits[1].payload.roomId = activeRooms[1].roomId
    /\ emits[1].payload.isReconnection

(***************************************************************************)
(* Signalling: s1 and s4 (both u1, bound to s4) and s2 (u2) are open;       *)
(* accept_invite creates rooms, the services report, sockets close, and     *)
(* every frame type is sent with every choice of to and targetUid.          *)
(***************************************************************************)
NextRelay ==
    \/ \E s \in Sockets : \E inviterUid \in Uids \ {SocketUser(s)} :
          /\ << now, 0 >> \notin UsedRoomIds
          /\ AcceptInvite(s, inviterUid, 0)
          /\ Len(activeRooms') <= MaxQueueRooms
    \/ \E s \in Sockets, roomId \in RoomIds, service \in Services :
          ConnectionStable(s, roomId, service)
    \/ \E s \in Sockets : Disconnect(s)
    \/ \E s \in Sockets, type \in FrameTypes,
          to \in Sockets \cup {None}, targetUid \in Uids \cup {None} :
          Relay(s, type, to, targetUid)

SpecRelay == InitTeardown /\ [][NextRelay]_vars

\* C23: a frame of any of the six types that names a socket in `to` is
\* emitted once, to that socket, whatever targetUid is and whoever the
\* opponent of the sender is.
C23_DirectTargetWins ==
    \A s \in connected, type \in FrameTypes, to \in Sockets,
       targetUid \in Uids \cup {None} :
        LET st == relay(Server, type, s, SocketUser(s), to, targetUid)
        IN /\ Len(st.emits) = 1
           /\ st.emits[1].to = to
           /\ st.emits[1].ev = type

\* C24: a frame of any of the six types whose targetUid is the uid of the
\* sender is emitted to no socket.
C24_NoLoopback ==
    \A s \in connected, type \in FrameTypes, to \in Sockets \cup {None} :
        relay(Server, type, s, SocketUser(s), to, SocketUser(s)).emits = << >>

\* C33: a frame of any of the six types sent with neither to nor targetUid
\* is emitted once, to the socket the sender's opponent is bound to, where
\* the opponent is the one of the sender's session entry or else the other
\* party of the first pending room of the sender; with no opponent, or an
\* opponent that is bound to no socket, nothing is emitted; and the handler
\* writes no table, so nothing is kept for later.
C33_OpponentFallback ==
    \A s \in connected, type \in FrameTypes :
        LET uid == SocketUser(s)
            mine == { k \in 1..Len(activeRooms) :
                        uid \in { activeRooms[k].playerA.uid,
                                  activeRooms[k].playerB.uid } }
            first == CHOOSE k \in mine : \A j \in mine : k <= j
            opponent ==
                IF MapHas(sessionCache, uid) THEN sessionCache[uid].opponentId
                ELSE IF mine = {} THEN None
                ELSE IF activeRooms[first].playerA.uid = uid
                THEN activeRooms[first].playerB.uid
                ELSE activeRooms[first].playerA.uid
            st == relay(Server, type, s, uid, None, None)
        IN /\ [st EXCEPT !.emits = << >>] = Server
           /\ IF opponent # None /\ MapHas(uidToSocket, opponent)
              THEN /\ Len(st.emits) = 1
                   /\ st.emits[1].to = uidToSocket[opponent]
                   /\ st.emits[1].ev = type
                   /\ st.emits[1].payload.from = s
              ELSE st.emits = << >>

\* u1 is in a pending room with u2 and has no session yet; u2 is bound to s2:
\* an offer that s1 sends without to and targetUid goes to s2 alone.
C33_Witness ==
    /\ ~MapHas(sessionCache, "u1")
    /\ Len(activeRooms) = 1
    /\ { activeRooms[1].playerA.uid, activeRooms[1].playerB.uid } = { "u1", "u2" }
    /\ "s1" \in connected
    /\ relay(Server, "offer", "s1", "u1", None, None).emits
          = << [to |-> "s2", ev |-> "offer",
                payload |-> [from |-> "s1", fromUid |-> "u1"]] >>

(***************************************************************************)
(* Two replicas: s1, s2 and s3 are open on r1; users join and leave, the    *)
(* interval timers of both replicas fire, and the clock moves.  A handler   *)
(* of r1 runs only while r1 is not inside its callback.                     *)
(***************************************************************************)
NextLease ==
    \/ \E s \in Sockets, ownGender \in Genders :
          /\ "r1" \notin cycling
          /\ JoinQueueGuest(s, "random", [gender |-> None, location |-> None],
                            ownGender, 0)
          /\ Len(activeRooms') <= MaxQueueRooms
    \/ \E s \in Sockets :
          /\ "r1" \notin cycling
          /\ JoinQueueBegin(s)
    \/ \E s \in Sockets :
          /\ "r1" \notin cycling
          /\ JoinQueueResume(s, "random", [gender |-> None, location |-> None], 0)
          /\ Len(activeRooms') <= MaxQueueRooms
    \/ \E s \in Sockets :
          /\ "r1" \notin cycling
          /\ LeaveQueue(s)
    \/ \E r \in Replicas : CycleBegin(r)
    \/ \E r \in Replicas :
          /\ CycleEnd(r, << 0 >>)
          /\ Len(activeRooms') <= MaxQueueRooms
    \/ Advance

SpecLease == InitSession /\ [][NextLease]_vars

\* C25: at any instant at most one replica is executing a matching cycle.
C25_OneCycleAtATime == Cardinality(cycling) <= 1

(***************************************************************************)
(* The gate: connections with credentials pass the middleware or not, the  *)
(* admin commands arrive from every connection, users join, and the clock  *)
(* passes the end of a one-minute ban.                                     *)
(***************************************************************************)
BanMinutes == { 0, 1 }

BanEnd == 60000

NoPreferences == [gender |-> None, location |-> None]

\* The users the admin commands are aimed at.
Targets == { "u1", "guest_3" }

NextBan ==
    \/ Handshake("g3")
    \/ \E targetUid \in Targets, durationMinutes \in BanMinutes :
          AdminBanUser("g3", targetUid, durationMinutes)
    \/ \E targetUid \in Targets : AdminUnbanUser("g3", targetUid)
    \/ \E s \in Sockets, tail \in RoomTails :
          JoinQueueGuest(s, "random", NoPreferences, "female", tail)
    \/ \E s \in Sockets : JoinQueueBegin(s)
    \/ \E s \in Sockets, tail \in RoomTails :
          JoinQueueResume(s, "random", NoPreferences, tail)
    \/ AdvanceTo(BanEnd)

SpecBan == InitSession /\ [][NextBan]_vars

C36_BanReadSemantics ==
    /\ \A uid \in Targets :
           LET st == banUser(Server, uid, "reason", 0, now) IN
           /\ st.bannedUsers[uid].expiresAt = 0
           /\ \A t \in { now, now + 1, now + BanEnd, now + BanEnd + BanEnd } :
                  /\ isBanned(st, uid, t)
                  /\ dropExpiredBan(st, uid, t).bannedUsers = st.bannedUsers
                  /\ ~isBanned(unbanUser(st, uid), uid, t)
    /\ \A uid \in DOMAIN bannedUsers :
           /\ bannedUsers[uid].expiresAt = 0 =>
                  \A t \in { now, now + 1, now + BanEnd } :
                      /\ isBanned(Server, uid, t)
                      /\ dropExpiredBan(Server, uid, t).bannedUsers = bannedUsers
           /\ (bannedUsers[uid].expiresAt > 0 /\ now >= bannedUsers[uid].expiresAt) =>
                  /\ ~isBanned(Server, uid, now)
                  /\ ~MapHas(dropExpiredBan(Server, uid, now).bannedUsers, uid)

\* The one-minute ban of u1 is over and its entry is still stored, and
\* guest_3 has been banned for good at time 0.
C36_Witness ==
    /\ now = BanEnd
    /\ MapHas(bannedUsers, "u1")
    /\ bannedUsers["u1"].expiresAt = BanEnd
    /\ MapHas(bannedUsers, "guest_3")
    /\ bannedUsers["guest_3"].expiresAt = 0
    /\ bannedUsers["guest_3"].bannedAt = 0

(***************************************************************************)
(* The ban gate with a clock that moves: the one-minute ban of a user is   *)
(* a millisecond from its end, or at its end, when the user joins.         *)
(***************************************************************************)
GateInstants == { BanEnd - 1, BanEnd }

NextRemaining ==
    \/ Handshake("g3")
    \/ \E targetUid \in Targets, durationMinutes \in BanMinutes :
          AdminBanUser("g3", targetUid, durationMinutes)
    \/ \E targetUid \in Targets : AdminUnbanUser("g3", targetUid)
    \/ \E s \in Sockets, tRead \in GateInstants \cup {now},
          tLeft \in GateInstants \cup {now} :
          JoinQueueBeginAt(s, tRead, tLeft)
    \/ \E s \in Sockets :
          JoinQueueResume(s, "random", NoPreferences, 0)
    \/ \E t \in GateInstants : AdvanceTo(t)

SpecRemaining == InitSession /\ [][NextRemaining]_vars

\* C37: getRemainingBanTime, called at this instant, gives a number above 0
\* for a temporary ban that its isBanned reports, also when the clock has
\* moved on by a millisecond at its subtraction; it gives -1 for the stored
\* permanent bans only and 0 for the uids isBanned reports no ban for only;
\* and a banned event that answers join_queue with remainingMinutes = -1
\* went to a user whose stored ban is permanent.
C37_RemainingBanTime ==
    /\ \A uid \in Uids, tLeft \in { now, now + 1 } :
           LET remaining == getRemainingBanTime(Server, uid, now, tLeft) IN
           /\ ( /\ isBanned(Server, uid, now)
                /\ bannedUsers[uid].expiresAt > 0 ) => remaining > 0
           /\ remaining = -1 <=>
                  (MapHas(bannedUsers, uid) /\ bannedUsers[uid].expiresAt = 0)
           /\ remaining = 0 <=> ~isBanned(Server, uid, now)
    /\ \A i \in 1..Len(emits) :
           ( /\ emits[i].ev = "banned"
             /\ "remainingMinutes" \in DOMAIN emits[i].payload
             /\ emits[i].payload.remainingMinutes = -1 ) =>
               /\ MapHas(bannedUsers, SocketUser(emits[i].to))
               /\ bannedUsers[SocketUser(emits[i].to)].expiresAt = 0

(***************************************************************************)
(* Tiers: users of each tier join with every preference a client can send. *)
(***************************************************************************)
NextTier ==
    \/ \E s \in Sockets, preferences \in ClientPreferences, tail \in RoomTails :
          /\ JoinQueueGuest(s, "random", preferences, "female", tail)
          /\ Len(activeRooms') <= MaxQueueRooms
    \/ \E s \in Sockets : JoinQueueBegin(s)
    \/ \E s \in Sockets, preferences \in ClientPreferences, tail \in RoomTails :
          /\ JoinQueueResume(s, "random", preferences, tail)
          /\ Len(activeRooms') <= MaxQueueRooms
    \/ \E s \in Sockets : LeaveQueue(s)

SpecTier == InitSession /\ [][NextTier]_vars

Senders == { "s1", "g3", "g4" }

NextGate ==
    \/ \E s \in GateSockets : Handshake(s)
    \/ \E s \in Sockets :
          /\ JoinQueueGuest(s, "random", NoPreferences, "female", 0)
          /\ Len(activeRooms') <= MaxQueueRooms
    \/ \E s \in Sockets : JoinQueueBegin(s)
    \/ \E s \in Sockets :
          /\ JoinQueueResume(s, "random", NoPreferences, 0)
          /\ Len(activeRooms') <= MaxQueueRooms
    \/ \E s \in Sockets : LeaveQueue(s)
    \/ \E s \in Sockets : Disconnect(s)

InitGate == Opened(<< "s1", "s3" >>)

SpecGate == InitGate /\ [][NextGate]_vars

\* The admin commands arrive from a user, from the admin and from a
\* connection with a wrong key, while users join and rooms are finalized.
NextAdmin ==
    \/ \E s \in { "g3", "g4" } : Handshake(s)
    \/ \E s \in Senders, targetUid \in Targets : AdminBanUser(s, targetUid, 0)
    \/ \E s \in Senders, targetUid \in Targets : AdminUnbanUser(s, targetUid)
    \/ \E s \in Senders, targetUid \in Targets : AdminKickUser(s, targetUid)
    \/ \E s \in Senders, targetUid \in Targets : AdminForceDisconnect(s, targetUid)
    \/ \E s \in Sockets :
          /\ JoinQueueGuest(s, "random", NoPreferences, "female", 0)
          /\ Len(activeRooms') <= MaxQueueRooms
    \/ \E s \in Sockets : JoinQueueBegin(s)
    \/ \E s \in Sockets :
          /\ JoinQueueResume(s, "random", NoPreferences, 0)
          /\ Len(activeRooms') <= MaxQueueRooms
    \/ \E s \in Sockets, roomId \in RoomIds, service \in Services :
          ConnectionStable(s, roomId, service)

SpecAdmin == InitGate /\ [][NextAdmin]_vars

\* C28: a connection that brings no credential, or a dotted token that fails
\* verification, is refused: it never counts as connected (so none of its
\* events is handled) and no socket binding is registered for it.
C28_BadCredentialsRefused ==
    \A s \in GateSockets :
        LET auth == HandshakeAuth(s)
            credential == IF auth.userId # None THEN auth.userId ELSE auth.token
        IN ( \/ credential = None
             \/ Dotted(credential) /\ VerifyIdToken(credential) = None )
           => /\ s \notin connected
              /\ ~MapHas(socketToUid, s)
              /\ \A uid \in DOMAIN uidToSocket : uidToSocket[uid] # s

NextDeparture ==
    \/ \E s \in Sockets : Disconnect(s)
    \/ \E s \in Sockets, ownGender \in Genders :
          /\ JoinQueueGuest(s, "random", NoPreferences, ownGender, 0)
          /\ Len(activeRooms') <= MaxQueueRooms
    \/ \E s \in Sockets : JoinQueueBegin(s)
    \/ \E s \in Sockets, in \in CycleInputs :
          /\ JoinQueueResume(s, in.mode, in.preferences, 0)
          /\ Len(activeRooms') <= MaxQueueRooms
    \/ /\ Tick(<< 0 >>)
       /\ Len(activeRooms') <= MaxQueueRooms
    \/ Advance

SpecDeparture == InitSession /\ [][NextDeparture]_vars

\* C30: when the socket of a queued user disconnects, its QueueUser is no
\* longer in the queue, and the next matching cycle sends no match_found to it
\* or about it and hands no pair with it to executeMatch; a waiter that the
\* cycle would have paired with it, and that no other connected queued user
\* is compatible with, is still queued after that cycle and gets no
\* match_found.  In every state, a matching cycle sends no match_found to or
\* about a connection that has ended and opens no room with it.
C30_DepartedNeverPaired ==
    /\ \A s \in Sockets \ connected :
          LET post == processMatches(Server, now, connected, << 0 >>) IN
          /\ \A k \in 1..Len(post.emits) :
                post.emits[k].ev = "match_found"
                => /\ post.emits[k].to # s
                   /\ post.emits[k].payload.opponentId # s
          /\ \A k \in 1..Len(post.activeRooms) :
                post.activeRooms[k] \notin Range(activeRooms)
                => s \notin { post.activeRooms[k].playerA.socketId,
                              post.activeRooms[k].playerB.socketId }
    /\ \A s \in connected :
          (\E g \in Genders : \E i \in 1..Len(queues[g]) : queues[g][i].socketId = s)
          => LET gone == onDisconnect(Server, s)
                 conn == connected \ {s}
                 pre == processMatches(Server, now, connected, << 0 >>)
                 post == processMatches(gone, now, conn, << 0 >>)
                 widened == processWidening(gone, now, conn)
                 waiting == widened.queues.male \o widened.queues.female
                 Compatible(a, b) ==
                     /\ b.socketId \in conn
                     /\ Accepts(a, b, conn) \/ Accepts(b, a, conn)
             IN /\ \A g \in Genders : \A i \in 1..Len(gone.queues[g]) :
                      gone.queues[g][i].socketId # s
                /\ \A k \in 1..Len(post.emits) :
                      post.emits[k].ev = "match_found"
                      => /\ post.emits[k].to # s
                         /\ post.emits[k].payload.opponentId # s
                /\ \A k \in 1..Len(post.matched) :
                      s \notin { post.matched[k].user.socketId,
                                 post.matched[k].candidate.socketId }
                /\ \A w \in 1..Len(waiting) :
                      ( /\ waiting[w].socketId \in conn
                        /\ \E k \in 1..Len(pre.matched) :
                              { pre.matched[k].user.socketId,
                                pre.matched[k].candidate.socketId }
                                 = { s, waiting[w].socketId }
                        /\ \A c \in 1..Len(waiting) :
                              c # w => ~Compatible(waiting[w], waiting[c]) )
                      => /\ \E g \in Genders : \E i \in 1..Len(post.queues[g]) :
                               post.queues[g][i].socketId = waiting[w].socketId
                         /\ \A k \in 1..Len(post.emits) :
                               post.emits[k].to # waiting[w].socketId

\* u2 and the guest wait in the queue, alone, and the cycle that runs now
\* would pair them; if the guest's socket disconnects first, its QueueUser is
\* gone and the cycle leaves u2 in the queue and emits nothing.
C30_Witness ==
    LET pre == processMatches(Server, now, connected, << 0 >>)
        gone == onDisconnect(Server, "s3")
        post == processMatches(gone, now, connected \ {"s3"}, << 0 >>)
    IN /\ { "s2", "s3" } \subseteq connected
       /\ Len(queues.male) = 0
       /\ Len(queues.female) = 2
       /\ { queues.female[1].socketId, queues.female[2].socketId } = { "s2", "s3" }
       /\ Len(pre.matched) = 1
       /\ Len(gone.queues.female) = 1
       /\ Len(post.queues.female) = 1
       /\ post.queues.female[1].socketId = "s2"
       /\ post.emits = << >>

\* The QueueUser that join_queue would build now for each connected socket.
JoiningUsers ==
    { NewQueueUser(s, SocketUser(s), ownGender, None, "FREE", "random",
                   NoPreferences, now) :
          s \in { x \in connected : IsGuest(SocketUser(x)) }, ownGender \in Genders }
    \cup
    { NewQueueUser(s, SocketUser(s), DbGender(SocketUser(s)),
                   DbLocation(SocketUser(s)), DbTier(SocketUser(s)),
                   in.mode, in.preferences, now) :
          s \in { x \in connected : ~IsGuest(SocketUser(x)) }, in \in CycleInputs }

\* The queue holds a QueueUser of this uid.
Queued(q, uid) ==
    \E g \in Genders : \E i \in 1..Len(q[g]) : q[g][i].uid = uid

\* C38 as it stands: joinQueue(u) and then removeUserByUid(u.uid) give back
\* the two partitions as they were before the joinQueue, whatever they were.
C38_JoinThenRemoveRestores ==
    \A user \in JoiningUsers :
        removeUserByUid(joinQueue(Server, user, connected, now, 0),
                        user.uid).queues = queues

\* C38 amended: after joinQueue(u) and removeUserByUid(u.uid) the queue has
\* no QueueUser of u.uid; and it is exactly as it was before the joinQueue
\* when u.uid was not queued, the joinQueue matched nobody and every queued
\* user's socket was connected.
C38_JoinThenRemoveUnmatched ==
    \A user \in JoiningUsers :
        LET joined == joinQueue(Server, user, connected, now, 0)
            st == removeUserByUid(joined, user.uid)
        IN /\ ~Queued(st.queues, user.uid)
           /\ ( /\ ~Queued(queues, user.uid)
                /\ joined.matched = << >>
                /\ \A g \in Genders : \A i \in 1..Len(queues[g]) :
                       queues[g][i].socketId \in connected )
              => st.queues = queues

\* Somebody is queued, and a user who is not queued joins as a woman without
\* being matched: the join adds her QueueUser and the removal takes it out.
C38_Witness ==
    \E user \in JoiningUsers :
        LET joined == joinQueue(Server, user, connected, now, 0) IN
        /\ user.gender = "female"
        /\ ~Queued(queues, user.uid)
        /\ queues.male \o queues.female # << >>
        /\ joined.matched = << >>
        /\ Queued(joined.queues, user.uid)
        /\ removeUserByUid(joined, user.uid).queues = queues

(***************************************************************************)
(* Pairs: u1 and u2 are DIAMOND users of either gender and location, who   *)
(* join in mode random with every location preference; the tick and the    *)
(* clock run.                                                              *)
(***************************************************************************)
PairProfiles ==
    [ gender : Genders, location : Locations, tier : {"DIAMOND"} ]

PairPreferences ==
    [ gender : {None}, location : Locations \cup {None} ]

NextPair ==
    \/ \E s \in Sockets : JoinQueueBegin(s)
    \/ \E s \in Sockets, profile \in PairProfiles, preferences \in PairPreferences :
          /\ JoinQueueResumeWith(s, profile, "random", preferences, 0)
          /\ Len(activeRooms') <= MaxQueueRooms
    \/ /\ Tick(<< 0 >>)
       /\ Len(activeRooms') <= MaxQueueRooms
    \/ Advance

InitPair == Opened(<< "s1", "s2" >>)

SpecPair == InitPair /\ [][NextPair]_vars

\* C40: when a matching cycle runs over a queue in which, after the widening
\* of this cycle, two users with connected sockets pass every check of the
\* table against each other (different uids, each side's target gender
\* accepts the other, each side's location preference at stage 0 is the
\* other's location, same mode), then at the end of the cycle one of the two
\* is in a matched pair and out of the queue.
C40_NoMatchablePairLeft ==
    LET widened == processWidening(Server, now, connected)
        all == widened.queues.male \o widened.queues.female
        st == processMatches(Server, now, connected, << 0 >>)
        target(X) == IF X.preferences.gender # None THEN X.preferences.gender
                     ELSE IF X.widenStage < 2 THEN Opposite(X.gender)
                     ELSE "any"
        compatible(U, C) ==
            /\ U.uid # C.uid
            /\ target(U) \in {"any", C.gender}
            /\ target(C) \in {"any", U.gender}
            /\ (U.preferences.location # None /\ U.widenStage < 1)
                   => C.location = U.preferences.location
            /\ (C.preferences.location # None /\ C.widenStage < 1)
                   => U.location = C.preferences.location
            /\ U.mode = C.mode
        matchedAndRemoved(X) ==
            /\ \E k \in 1..Len(st.matched) :
                   X.uid \in { st.matched[k].user.uid, st.matched[k].candidate.uid }
            /\ ~Queued(st.queues, X.uid)
    IN \A i \in 1..Len(all), j \in 1..Len(all) :
           ( /\ i # j
             /\ all[i].socketId \in connected
             /\ all[j].socketId \in connected
             /\ compatible(all[i], all[j]) )
           => matchedAndRemoved(all[i]) \/ matchedAndRemoved(all[j])

(***************************************************************************)
(* The revision of SessionService that keeps rooms and sessions in Redis.  *)
(* Its handlers are async: between two awaits a handler runs alone, and at *)
(* an await the handlers of other events (of this or of another replica)   *)
(* run.  activeRooms and sessionCache stand for the keys room:* and        *)
(* session:* of the store; stableCalls holds the handlers in flight.       *)
(***************************************************************************)

\* createRoom of the Redis revision: the sockets are the registered ones,
\* the room expects 'video' only, the record is stored, both are notified.
redisCreateRoom(st, userA, userB, t, tail) ==
    IF ~MapHas(st.uidToSocket, userA.uid) \/ ~MapHas(st.uidToSocket, userB.uid)
    THEN st
    ELSE LET roomId == << t, tail >>
             a == [uid |-> userA.uid, socketId |-> st.uidToSocket[userA.uid]]
             b == [uid |-> userB.uid, socketId |-> st.uidToSocket[userB.uid]]
             roomData == [ roomId |-> roomId, playerA |-> a, playerB |-> b,
                           gameReady |-> FALSE, videoReady |-> FALSE,
                           expectedServices |-> {"video"},
                           createdAt |-> t ]
             st1 == [st EXCEPT !.activeRooms = RoomsSet(@, roomData)]
             st2 == Emit(st1, a.socketId, "match_found",
                         MatchFound(roomId, "A", b.socketId, b.uid, TRUE, FALSE))
         IN Emit(st2, b.socketId, "match_found",
                 MatchFound(roomId, "B", a.socketId, a.uid, FALSE, FALSE))

\* A match of two connected clients reaches createRoom.
RedisCreateRoom(a, b, tail) ==
    /\ a \in connected
    /\ b \in connected
    /\ SocketUser(a) # SocketUser(b)
    /\ << now, tail >> \notin UsedRoomIds
    /\ Commit(redisCreateRoom(Server, [uid |-> SocketUser(a), socketId |-> a],
                              [uid |-> SocketUser(b), socketId |-> b], now, tail))
    /\ UNCHANGED << now, connected, closed, joining, cycling, stableCalls >>

\* The handler c has moved on: to the step pc, holding the record room.
StableCallAt(c, pc, room) == [c EXCEPT !.pc = pc, !.room = room]

\* handleConnectionStable up to its second await: the room is read (a missing
\* room ends the handler), the flag of the service is set in the handler's
\* own copy, and the write of the copy is pending.
StableGet(s, roomId, service) ==
    /\ s \in connected
    /\ \A c \in stableCalls : c.socket # s
    /\ LET i == RoomIndex(activeRooms, roomId) IN
       stableCalls' =
           IF i = 0 THEN stableCalls
           ELSE stableCalls \cup
                { [ socket |-> s, roomId |-> roomId, service |-> service,
                    room |-> [activeRooms[i] EXCEPT
                                !.gameReady = IF service = "game" THEN TRUE ELSE @,
                                !.videoReady = IF service = "video" THEN TRUE ELSE @],
                    pc |-> "set", finalized |-> FALSE ] }
    /\ Commit(Server)
    /\ UNCHANGED << now, connected, closed, joining, cycling >>

\* redisClient.set(room, JSON.stringify(room), { KEEPTTL: true }) takes
\* effect: the stored record becomes the handler's copy, whatever was stored.
\* The handler then finalizes if every expected service is ready in its copy.
StableSet(c) ==
    /\ c \in stableCalls
    /\ c.pc = "set"
    /\ LET room == c.room
           isGameSatisfied ==
               IF "game" \in room.expectedServices THEN room.gameReady ELSE TRUE
           isVideoSatisfied ==
               IF "video" \in room.expectedServices THEN room.videoReady ELSE TRUE
       IN /\ Commit([Server EXCEPT !.activeRooms = RoomsSet(@, room)])
          /\ stableCalls' = (stableCalls \ {c}) \cup
                 { StableCallAt(c, IF isGameSatisfied /\ isVideoSatisfied
                                   THEN "finalize" ELSE "waiting", room) }
    /\ UNCHANGED << now, connected, closed, joining, cycling >>

\* finalizeConnection up to its second await: the room is read again, and a
\* missing room ends the handler.
FinalizeGet(c) ==
    /\ c \in stableCalls
    /\ c.pc = "finalize"
    /\ LET i == RoomIndex(activeRooms, c.roomId) IN
       stableCalls' = (stableCalls \ {c}) \cup
           { IF i = 0 THEN StableCallAt(c, "gone", c.room)
             ELSE StableCallAt(c, "sessionA", activeRooms[i]) }
    /\ Commit(Server)
    /\ UNCHANGED << now, connected, closed, joining, cycling >>

\* redisClient.set(session:playerA, sessionA) takes effect.
FinalizeSessionA(c) ==
    /\ c \in stableCalls
    /\ c.pc = "sessionA"
    /\ Commit([Server EXCEPT !.sessionCache =
                  MapSet(@, c.room.playerA.uid,
                         [ roomId |-> c.roomId,
                           opponentId |-> c.room.playerB.uid, role |-> "A" ])])
    /\ stableCalls' = (stableCalls \ {c}) \cup {StableCallAt(c, "sessionB", c.room)}
    /\ UNCHANGED << now, connected, closed, joining, cycling >>

\* redisClient.set(session:playerB, sessionB) takes effect, and the handler
\* tells both sockets that the session is established.
FinalizeSessionB(c) ==
    /\ c \in stableCalls
    /\ c.pc = "sessionB"
    /\ LET st1 == [Server EXCEPT !.sessionCache =
                      MapSet(@, c.room.playerB.uid,
                             [ roomId |-> c.roomId,
                               opponentId |-> c.room.playerA.uid, role |-> "B" ])]
           st2 == Emit(st1, c.room.playerA.socketId, "session_established",
                       [roomId |-> c.roomId])
       IN Commit(Emit(st2, c.room.playerB.socketId, "session_established",
                      [roomId |-> c.roomId]))
    /\ stableCalls' = (stableCalls \ {c}) \cup
           { [StableCallAt(c, "del", c.room) EXCEPT !.finalized = TRUE] }
    /\ UNCHANGED << now, connected, closed, joining, cycling >>

\* redisClient.del(room) takes effect and the handler ends.
FinalizeDel(c) ==
    /\ c \in stableCalls
    /\ c.pc = "del"
    /\ Commit([Server EXCEPT !.activeRooms = RoomsDelete(@, c.roomId)])
    /\ stableCalls' = (stableCalls \ {c}) \cup {StableCallAt(c, "done", c.room)}
    /\ UNCHANGED << now, connected, closed, joining, cycling >>

\* Clients are matched into rooms, and each client reports one service of a
\* room as stable; the handlers of the reports interleave at their awaits.
NextStore ==
    \/ \E a \in Sockets, b \in Sockets, tail \in RoomTails :
          /\ RedisCreateRoom(a, b, tail)
          /\ Len(activeRooms') <= MaxQueueRooms
    \/ \E s \in Sockets, roomId \in UsedRoomIds, service \in Services :
          StableGet(s, roomId, service)
    \/ \E c \in stableCalls : StableSet(c)
    \/ \E c \in stableCalls : FinalizeGet(c)
    \/ \E c \in stableCalls : FinalizeSessionA(c)
    \/ \E c \in stableCalls : FinalizeSessionB(c)
    \/ \E c \in stableCalls : FinalizeDel(c)

InitStore == Opened(<< "s1", "s2" >>)

SpecStore == InitStore /\ [][NextStore]_vars

\* C35: a pending room is finalized by one handler only (so that each peer is
\* sent session_established once and the session entries are written once),
\* and a readiness flag that a handler has written is still set in the room
\* record for as long as the room is stored.
C35_FinalizedOnce ==
    /\ \A c, d \in stableCalls :
           (c.finalized /\ d.finalized /\ c.roomId = d.roomId) => c = d
    /\ \A c \in stableCalls :
           LET i == RoomIndex(activeRooms, c.roomId) IN
           (c.pc \in {"waiting", "finalize", "sessionA", "sessionB", "del"} /\ i # 0) =>
               /\ c.service = "game" => activeRooms[i].gameReady
               /\ c.service = "video" => activeRooms[i].videoReady

(***************************************************************************)
(* The socket registry.                                                    *)
(***************************************************************************)

\* C5: a uid is bound to at most one socket, and a uid that is bound is bound
\* to the socket of its own that registered last among those that have not
\* been unregistered since.
C5_BoundToLatestRegistered ==
    \A uid \in DOMAIN uidToSocket :
        /\ regOrder[uid] # << >>
        /\ uidToSocket[uid] = regOrder[uid][Len(regOrder[uid])]

\* Two sockets of u1 are registered and u1 is bound to the later one.
C5_Witness ==
    /\ regOrder["u1"] = << "s1", "s4" >>
    /\ MapHas(uidToSocket, "u1")
    /\ uidToSocket["u1"] = "s4"

\* C6: once a socket is unregistered it has no uid; its uid's binding is gone
\* if it pointed at this socket, and is what it was if it pointed at another.
C6_UnregisterKeepsNewerBinding ==
    \A i \in 1..Len(unregistered) :
        LET d == unregistered[i] IN
        /\ ~MapHas(socketToUid, d.socketId)
        /\ d.boundTo = d.socketId => ~MapHas(uidToSocket, d.uid)
        /\ (d.boundTo # d.socketId /\ d.boundTo # None) =>
               (MapHas(uidToSocket, d.uid) /\ uidToSocket[d.uid] = d.boundTo)

\* s1 and then s4 registered for u1, s1 has just been unregistered, and u1 is
\* still bound to s4.
C6_Witness ==
    /\ unregistered = << [socketId |-> "s1", uid |-> "u1", boundTo |-> "s4"] >>
    /\ MapHas(uidToSocket, "u1")
    /\ uidToSocket["u1"] = "s4"

=============================================================================
